---- MODULE Spec2Model ----
(***************************************************************************)
(* The reasoning workflow of backend/app/agent/graph.py: one turn of       *)
(* run_agent through Understand -> Retrieve -> Enrich -> Search Values ->   *)
(* Generate -> {Generate | END}, with the tools of backend/app/rag/tools.py *)
(* it calls.  Python values are tagged records ([t |-> "str", v |-> ...])   *)
(* so that truthiness, None and JSON nulls are what the code sees.          *)
(***************************************************************************)
EXTENDS Integers, Sequences, FiniteSets, TLC

(* ---------------------------------------------------------------------- *)
(* Bounds of the model and constants of the program                        *)
(* ---------------------------------------------------------------------- *)

\* External-call counters saturate here, so that a turn that never ends is a
\* cycle of the state graph.
MaxCalls == 5

\* graph.py:56
MAX_SQL_RETRIES == 3

\* tools.py:416, the default of execute_sql_query's max_rows
DEFAULT_MAX_ROWS == 100

(* ---------------------------------------------------------------------- *)
(* Python values                                                           *)
(* ---------------------------------------------------------------------- *)

None == [t |-> "None"]

Str(s) == [t |-> "str", v |-> s]

PyInt(n) == [t |-> "int", v |-> n]

List(q) == [t |-> "list", v |-> q]

Dict(r) == [t |-> "dict", v |-> r]

\* json.dumps of an object: a non-empty string whose fields are kept readable
Json(r) == [t |-> "json", v |-> r]

\* bool(x), as "if x" and "not x" evaluate it
Truthy(x) ==
    CASE x.t = "None" -> FALSE
      [] x.t = "str"  -> Len(x.v) > 0
      [] x.t = "int"  -> x.v # 0
      [] x.t = "list" -> Len(x.v) > 0
      [] x.t = "dict" -> DOMAIN x.v # {}
      [] OTHER        -> TRUE

\* dict.get(key, default) on a parsed JSON object
DictGet(d, key, default) == IF key \in DOMAIN d THEN d[key] ELSE default

Min(a, b) == IF a < b THEN a ELSE b

Bump(n) == Min(n + 1, MaxCalls)

(* ---------------------------------------------------------------------- *)
(* Strings                                                                 *)
(* ---------------------------------------------------------------------- *)

UpperChars == "ABCDEFGHIJKLMNOPQRSTUVWXYZ"

LowerChars == "abcdefghijklmnopqrstuvwxyz"

LowerChar(c) ==
    IF \E i \in 1..26 : SubSeq(UpperChars, i, i) = c
    THEN LET i == CHOOSE j \in 1..26 : SubSeq(UpperChars, j, j) = c
         IN  SubSeq(LowerChars, i, i)
    ELSE c

RECURSIVE Lower(_)
\* str.lower()
Lower(s) == IF Len(s) = 0 THEN "" ELSE LowerChar(SubSeq(s, 1, 1)) \o Lower(SubSeq(s, 2, Len(s)))

\* "sub in s" on two strings
Contains(s, sub) ==
    \E i \in 1..(Len(s) - Len(sub) + 1) : SubSeq(s, i, i + Len(sub) - 1) = sub

IsSpace(c) == c \in {" ", "\n", "\t", "\r"}

\* len(s.split()): the number of maximal runs of non-whitespace
WordCount(s) ==
    Cardinality({i \in 1..Len(s) :
        /\ ~IsSpace(SubSeq(s, i, i))
        /\ (i = 1 \/ IsSpace(SubSeq(s, i - 1, i - 1)))})

\* s[:n]
Prefix(s, n) == SubSeq(s, 1, Min(n, Len(s)))

\* The least element of a set of indices, 0 when there is none
FirstOr0(S) == IF S = {} THEN 0 ELSE CHOOSE i \in S : \A j \in S : i <= j

\* The least index >= from at which sub occurs in s, 0 when there is none
Find(s, sub, from) ==
    FirstOr0({i \in from..(Len(s) - Len(sub) + 1) : SubSeq(s, i, i + Len(sub) - 1) = sub})

\* The least index >= from holding no whitespace, Len(s) + 1 when there is none
SkipSpaces(s, from) ==
    IF \A i \in from..Len(s) : IsSpace(SubSeq(s, i, i)) THEN Len(s) + 1
    ELSE FirstOr0({i \in from..Len(s) : ~IsSpace(SubSeq(s, i, i))})

\* s between the first and the last of the indices in keep
Between(s, keep) ==
    IF keep = {} THEN ""
    ELSE SubSeq(s, CHOOSE i \in keep : \A j \in keep : i <= j,
                   CHOOSE i \in keep : \A j \in keep : i >= j)

\* str.strip()
Strip(s) == Between(s, {i \in 1..Len(s) : ~IsSpace(SubSeq(s, i, i))})

StartsWith(s, prefix) == Len(s) >= Len(prefix) /\ SubSeq(s, 1, Len(prefix)) = prefix

EndsWith(s, suffix) == Len(s) >= Len(suffix) /\ SubSeq(s, Len(s) - Len(suffix) + 1, Len(s)) = suffix

\* Whether sub stands in s at index i
At(s, i, sub) == i >= 1 /\ i + Len(sub) - 1 <= Len(s) /\ SubSeq(s, i, i + Len(sub) - 1) = sub

RECURSIVE StripThink(_)
\* content without the block from open to close, and without the later blocks
CutThink(content, open, close) ==
    IF close = 0 THEN content
    ELSE SubSeq(content, 1, open - 1) \o StripThink(SubSeq(content, close + 8, Len(content)))

\* content without the blocks that begin at open or later
StripThinkFrom(content, open) ==
    IF open = 0 THEN content
    ELSE CutThink(content, open, Find(content, "</think>", open + 7))

\* re.sub(r"<think>.*?</think>", "", content, flags=re.DOTALL)
StripThink(content) == StripThinkFrom(content, Find(content, "<think>", 1))

(* ---------------------------------------------------------------------- *)
(* The state of one turn                                                   *)
(* ---------------------------------------------------------------------- *)

VARIABLES
    pc,                 \* the node the graph runs next, "END", "returned" or "raised"
    state,              \* the AgentState of the turn
    connection_cache,   \* tools._connection_cache
    calls,              \* external calls issued so far, per service
    intent_reply,       \* what the completion service answered Understand
    last_result,        \* the executor call of the latest Generate invocation: what the database
                        \* did, the attempts and sleeps of the call and the dict it returned
    syntax_only,        \* no executor call of the turn has ended otherwise than in a "syntax" error
    payload,            \* what run_agent returned
    sql_prompt,         \* the prompt of the latest SQL completion call: its question and retry context
    tool,               \* a tool function called on its own: its arguments and what it returned
    turns,              \* the turns a host process serves at once, each with its own AgentState
    loop,               \* the turn whose synchronous call holds the event loop, or "free"
    write_log           \* the set_connection_details calls of the host process, oldest first

vars == <<pc, state, connection_cache, calls, intent_reply, last_result, syntax_only, payload,
          sql_prompt, tool, turns, loop, write_log>>

\* What the specification of one turn leaves alone: the tool called on its own
\* and the host process of concurrent turns
beside_turn == <<tool, turns, loop, write_log>>

NoTool == [fn |-> "none"]

BesideTurnIdle ==
    /\ tool = NoTool
    /\ turns = <<>>
    /\ loop = "free"
    /\ write_log = <<>>

GREETING_TEXT == "Hello! I am your database assistant. How can I help you query your data today?"

Questions == {"Hello", "Show orders from NYC", "hi there my friend", "which thing"}

ConnectionIds == {1}

ConnectionDetails == [host |-> "db", port |-> 5432]

\* run_agent's initial_state
AgentState(question, connection_id, explain_mode) ==
    [question         |-> question,
     connection_id    |-> connection_id,
     explain_mode     |-> explain_mode,
     intent           |-> None,
     searchable_terms |-> None,
     relevant_tables  |-> None,
     table_insights   |-> None,
     resolved_values  |-> None,
     generated_sql    |-> None,
     sql_attempts     |-> 0,
     last_sql_error   |-> None,
     response         |-> None,
     sql_query        |-> None,
     explanation      |-> None,
     data             |-> None,
     columns          |-> None,
     error            |-> None]

NoCalls ==
    [llm_intent |-> 0, search |-> 0, insights |-> 0, value_search |-> 0,
     llm_sql |-> 0, executor |-> 0, llm_explain |-> 0]

Init ==
    /\ pc = "understand"
    /\ \E q \in Questions, c \in ConnectionIds, e \in BOOLEAN :
           state = AgentState(q, c, e)
    \* chat_with_database caches the details before it calls run_agent (router.py:95)
    /\ connection_cache = [c \in ConnectionIds |-> ConnectionDetails]
    /\ calls = NoCalls
    /\ intent_reply = None
    /\ last_result = None
    /\ syntax_only = TRUE
    /\ payload = None
    /\ sql_prompt = None
    /\ BesideTurnIdle

(* ---------------------------------------------------------------------- *)
(* Understand                                                              *)
(* ---------------------------------------------------------------------- *)

WellFormedTerm == Dict([term |-> Str("NYC"), likely_column_type |-> Str("city")])

\* What llm_intent.invoke and the parsing of its text can come to: the call
\* raises, the text is not JSON, or the text is JSON with any value in it.
IntentReplies ==
    {[kind |-> "raise", msg |-> "connection refused"],
     [kind |-> "text"],
     [kind |-> "json", parsed |-> List(<<>>)],
     [kind |-> "json", parsed |-> Dict(<<>>)],
     [kind |-> "json", parsed |-> Dict([intent |-> Str("GREETING"), searchable_terms |-> List(<<>>)])],
     [kind |-> "json", parsed |-> Dict([intent |-> Str("GREETING"), searchable_terms |-> List(<<WellFormedTerm>>)])],
     [kind |-> "json", parsed |-> Dict([intent |-> Str("Find orders filtered by city"),
                                        searchable_terms |-> List(<<WellFormedTerm>>)])],
     [kind |-> "json", parsed |-> Dict([searchable_terms |-> None])],
     [kind |-> "json", parsed |-> Dict([intent |-> None, searchable_terms |-> List(<<Str("NYC")>>)])],
     [kind |-> "json", parsed |-> Dict([intent |-> Str("Find orders"),
                                        searchable_terms |-> List(<<Dict([term |-> PyInt(5)])>>)])],
     [kind |-> "json", parsed |-> Dict([intent |-> Str("Find orders"),
                                        searchable_terms |-> List(<<Dict([term |-> Str("NYC"),
                                                                          likely_column_type |-> None])>>)])]}

\* Variant of DefaultIntent that drops the prefix of the default intent; C10
\* must tell it from the code.
DefaultIntent_NoPrefix(question) == Str(question)

DefaultIntent(question) == Str("Find data related to: " \o question)

greetings == <<"hello", "hi", "good morning", "good afternoon", "good evening", "hey">>

\* graph.py:146, any(g in question.lower() for g in greetings)
is_greeting(question) ==
    \E i \in 1..Len(greetings) : Contains(Lower(question), greetings[i])

\* graph.py:146-147, the greeting detection of the JSONDecodeError fallback,
\* worked out once for each question
FallbackGreetingOf == [q \in Questions |-> is_greeting(q) /\ WordCount(q) <= 3]

understand_node(s, reply) ==
    LET question == s.question IN
    CASE reply.kind = "raise" ->
            [s EXCEPT !.intent = DefaultIntent(question),
                      !.searchable_terms = List(<<>>),
                      !.error = Str("Intent parsing warning: " \o Prefix(reply.msg, 100))]
      [] reply.kind = "text" ->
            IF FallbackGreetingOf[question]
            THEN [s EXCEPT !.intent = Str("GREETING"),
                           !.searchable_terms = List(<<>>),
                           !.response = Str(GREETING_TEXT)]
            ELSE [s EXCEPT !.intent = DefaultIntent(question),
                           !.searchable_terms = List(<<>>)]
      [] reply.kind = "json" /\ reply.parsed.t # "dict" ->
            \* parsed.get raises AttributeError, caught at line 156
            [s EXCEPT !.intent = DefaultIntent(question),
                      !.searchable_terms = List(<<>>),
                      !.error = Str("Intent parsing warning: " \o
                                    Prefix("'list' object has no attribute 'get'", 100))]
      [] OTHER ->
            LET intent == DictGet(reply.parsed.v, "intent", DefaultIntent(question))
                terms  == DictGet(reply.parsed.v, "searchable_terms", List(<<>>))
            IN  [s EXCEPT !.intent = intent,
                          !.searchable_terms = terms,
                          !.response = IF intent = Str("GREETING")
                                       THEN Str(GREETING_TEXT) ELSE @]

Understand ==
    /\ pc = "understand"
    /\ \E reply \in IntentReplies :
         /\ state' = understand_node(state, reply)
         /\ intent_reply' = reply
    /\ calls' = [calls EXCEPT !.llm_intent = Bump(@)]
    /\ pc' = "retrieve"
    /\ UNCHANGED <<connection_cache, last_result, syntax_only, payload, sql_prompt>>
    /\ UNCHANGED beside_turn

(* ---------------------------------------------------------------------- *)
(* The metadata store and the vector store the tools read                  *)
(* ---------------------------------------------------------------------- *)

\* Rows of TableInsight with their ColumnMetadata, as get_table_insights
\* serialises them (tools.py:176-210).
OrdersInsight ==
    [table_name |-> "orders", schema_name |-> "public", row_count |-> 3,
     summary |-> "Customer orders",
     columns |-> <<
        [column_name |-> "id", data_type |-> "integer", column_summary |-> None,
         indexing_strategy |-> "skip", categorical_values |-> <<>>, sample_values |-> <<>>],
        [column_name |-> "city", data_type |-> "text", column_summary |-> Str("Delivery city"),
         indexing_strategy |-> "categorical", categorical_values |-> <<"Newark", "New York">>,
         sample_values |-> <<>>],
        [column_name |-> "status", data_type |-> "text", column_summary |-> None,
         indexing_strategy |-> "categorical", categorical_values |-> <<"pending", "shipped">>,
         sample_values |-> <<>>] >>]

CustomersInsight ==
    [table_name |-> "customers", schema_name |-> "public", row_count |-> 2,
     summary |-> "Customers",
     columns |-> <<
        [column_name |-> "home_city", data_type |-> "text", column_summary |-> None,
         indexing_strategy |-> "vector", categorical_values |-> <<>>,
         sample_values |-> <<"New York City">>] >>]

MetadataStore == <<OrdersInsight, CustomersInsight>>

TableDoc(name) ==
    [table_name |-> name, schema_name |-> "public", relevance_score |-> 900,
     document |-> Str("Table " \o name)]

\* What search_similar can come to: it raises, or returns the nearest documents
SimilarityOutcomes ==
    {[kind |-> "raise"],
     [kind |-> "ok", results |-> <<>>],
     [kind |-> "ok", results |-> <<TableDoc("orders"), TableDoc("customers")>>],
     [kind |-> "ok", results |-> <<TableDoc("archive")>>]}

search_database_data(outcome) ==
    IF outcome.kind = "raise"
    THEN [status |-> "error", results |-> <<>>]
    ELSE IF Len(outcome.results) = 0
         THEN [status |-> "no_results", results |-> <<>>]
         ELSE [status |-> "success", results |-> outcome.results]

RECURSIVE SelectSeq2(_, _)
\* the elements of seq whose table_name is in names, in order
SelectSeq2(seq, names) ==
    IF Len(seq) = 0 THEN <<>>
    ELSE (IF Head(seq).table_name \in names THEN <<Head(seq)>> ELSE <<>>)
         \o SelectSeq2(Tail(seq), names)

get_table_insights(table_names, store_ok) ==
    IF ~store_ok
    THEN [status |-> "error", tables |-> <<>>]
    ELSE LET found == SelectSeq2(MetadataStore, table_names)
         IN  IF Len(found) = 0
             THEN [status |-> "no_results", tables |-> <<>>]
             ELSE [status |-> "success", tables |-> found]

(* ---------------------------------------------------------------------- *)
(* Retrieve and Enrich                                                     *)
(* ---------------------------------------------------------------------- *)

\* Variant of retrieve_node without the greeting check of graph.py:172-173; C7
\* must tell it from the code.
retrieve_node_NoGreetingCheck(s, outcome) ==
    LET results == search_database_data(outcome)
    IN  IF results.status = "success" /\ Len(results.results) > 0
        THEN [s EXCEPT !.relevant_tables = List(results.results)]
        ELSE [s EXCEPT !.relevant_tables = List(<<>>),
                       !.error = IF ~Truthy(s.error)
                                 THEN Str("No relevant tables found") ELSE @]

retrieve_node(s, outcome) ==
    IF s.intent = Str("GREETING")
    THEN s
    ELSE LET results == search_database_data(outcome)
         IN  IF results.status = "success" /\ Len(results.results) > 0
             THEN [s EXCEPT !.relevant_tables = List(results.results)]
             ELSE [s EXCEPT !.relevant_tables = List(<<>>),
                            !.error = IF ~Truthy(s.error)
                                      THEN Str("No relevant tables found") ELSE @]

Retrieve ==
    /\ pc = "retrieve"
    /\ \E outcome \in SimilarityOutcomes : state' = retrieve_node(state, outcome)
    /\ calls' = IF state.intent = Str("GREETING") THEN calls
                ELSE [calls EXCEPT !.search = Bump(@)]
    /\ pc' = "enrich"
    /\ UNCHANGED <<connection_cache, intent_reply, last_result, syntax_only, payload, sql_prompt>>
    /\ UNCHANGED beside_turn

\* Variant of EnrichSkips that goes on to the metadata store with no relevant
\* table; C8 must tell it from the code.
EnrichSkips_OnlyGreeting(s) == s.intent = Str("GREETING")

EnrichSkips(s) == s.intent = Str("GREETING") \/ ~Truthy(s.relevant_tables)

enrich_node(s, store_ok) ==
    IF EnrichSkips(s)
    THEN s
    ELSE LET table_names == {s.relevant_tables.v[i].table_name :
                                i \in 1..Len(s.relevant_tables.v)}
             insights == get_table_insights(table_names, store_ok)
         IN  IF insights.status = "success"
             THEN [s EXCEPT !.table_insights = List(insights.tables)]
             ELSE [s EXCEPT !.table_insights = List(<<>>)]

Enrich ==
    /\ pc = "enrich"
    /\ \E store_ok \in BOOLEAN : state' = enrich_node(state, store_ok)
    /\ calls' = IF EnrichSkips(state) THEN calls
                ELSE [calls EXCEPT !.insights = Bump(@)]
    /\ pc' = "search_values"
    /\ UNCHANGED <<connection_cache, intent_reply, last_result, syntax_only, payload, sql_prompt>>
    /\ UNCHANGED beside_turn

(* ---------------------------------------------------------------------- *)
(* Value search (tools.search_by_index)                                    *)
(* ---------------------------------------------------------------------- *)

abbreviations ==
    <<  <<"nyc", "new york">>, <<"la", "los angeles">>, <<"sf", "san francisco">>,
        <<"usa", "united states">>, <<"uk", "united kingdom">>, <<"jr", "junior">>,
        <<"sr", "senior">>, <<"mgr", "manager">>, <<"dept", "department">>,
        <<"qty", "quantity">>, <<"amt", "amount">>  >>

\* s1 in abbreviations and abbreviations[s1] in s2
AbbreviationOf(s1, s2) ==
    \E i \in 1..Len(abbreviations) :
        abbreviations[i][1] = s1 /\ Contains(s2, abbreviations[i][2])

_fuzzy_match(s1, s2) ==
    \/ AbbreviationOf(s1, s2)
    \/ AbbreviationOf(s2, s1)
    \/ /\ Len(s1) > 3
       /\ Len(s2) > 3
       /\ \E i \in 1..(Len(s1) - 2) : Contains(s2, SubSeq(s1, i, i + 2))

\* tools.py:294-307, the match of one categorical value, <<>> when it has none
CategoricalMatch(value, value_str, search_term_lower) ==
    IF Contains(value_str, search_term_lower) \/ Contains(search_term_lower, value_str)
    THEN <<[value |-> value, match_type |-> "contains", score |-> 1000]>>
    ELSE IF _fuzzy_match(search_term_lower, value_str)
         THEN <<[value |-> value, match_type |-> "fuzzy", score |-> 800]>>
         ELSE <<>>

\* Scores are kept in thousandths: 1.0 is 1000, 0.8 is 800.
RECURSIVE CategoricalMatches(_, _)
CategoricalMatches(values, search_term_lower) ==
    IF Len(values) = 0 THEN <<>>
    ELSE CategoricalMatch(Head(values), Lower(Head(values)), search_term_lower)
         \o CategoricalMatches(Tail(values), search_term_lower)

\* _cosine_similarity(embed_text(a), embed_text(b)), rounded to thousandths:
\* the embedding model is outside the repository, its answers are fixed here.
Similarity(a, b) ==
    IF Lower(a) = Lower(b) THEN 1000
    ELSE IF Contains(Lower(b), "new york") /\ Lower(a) \in {"nyc", "ny"} THEN 620
    ELSE 300

\* tools.py:322-333, the match of one sample value, <<>> when it has none
VectorMatch(value, similarity) ==
    IF similarity > 500
    THEN <<[value |-> value, match_type |-> "semantic", score |-> similarity]>>
    ELSE <<>>

RECURSIVE VectorMatches(_, _)
VectorMatches(values, search_term) ==
    IF Len(values) = 0 THEN <<>>
    ELSE VectorMatch(Head(values), Similarity(search_term, Head(values)))
         \o VectorMatches(Tail(values), search_term)

RECURSIVE InsertByScore(_, _)
\* m placed behind every element whose score is at least its own
InsertByScore(sorted, m) ==
    IF Len(sorted) = 0 THEN <<m>>
    ELSE IF Head(sorted).score >= m.score
         THEN <<Head(sorted)>> \o InsertByScore(Tail(sorted), m)
         ELSE <<m>> \o sorted

\* Variant of SortedByScore that leaves the matches in the order of the
\* stored values; C23 must tell it from the code.
SortedByScore_Unsorted(matches) == matches

RECURSIVE SortedByScore(_)
\* sorted(matches, key=score, reverse=True): stable, highest score first
SortedByScore(matches) ==
    IF Len(matches) = 0 THEN <<>>
    ELSE InsertByScore(SortedByScore(SubSeq(matches, 1, Len(matches) - 1)),
                       matches[Len(matches)])

SEARCH_LIMIT == 10

ErrorMatches == [status |-> "error", matches |-> <<>>]

\* tools.py:338-356
MatchesResult(matches) ==
    IF Len(matches) = 0
    THEN [status |-> "no_matches", matches |-> <<>>]
    ELSE [status |-> "success", matches |-> matches]

\* tools.py:286-334, the matches of search_term among the values of column
ColumnMatches(column, search_term) ==
    CASE column.indexing_strategy = "categorical" ->
            CategoricalMatches(column.categorical_values, Lower(search_term))
      [] column.indexing_strategy = "vector" ->
            VectorMatches(column.sample_values, search_term)
      [] OTHER -> <<>>

\* tools.py:266-356, once the table is found
SearchTable(table, column_name, search_term) ==
    IF ~\E j \in 1..Len(table.columns) : table.columns[j].column_name = column_name
    THEN ErrorMatches
    ELSE IF search_term.t # "str"
    THEN ErrorMatches   \* search_term.lower() raises inside the try
    ELSE MatchesResult(Prefix(SortedByScore(
            ColumnMatches(table.columns[CHOOSE j \in 1..Len(table.columns) :
                                            table.columns[j].column_name = column_name],
                          search_term.v)), SEARCH_LIMIT))

\* search_term is a Python value; store_ok is whether the metadata session works
search_by_index(table_name, column_name, search_term, store_ok) ==
    IF ~store_ok THEN ErrorMatches
    ELSE IF ~\E i \in 1..Len(MetadataStore) : MetadataStore[i].table_name = table_name
    THEN ErrorMatches
    ELSE SearchTable(MetadataStore[CHOOSE i \in 1..Len(MetadataStore) :
                                       MetadataStore[i].table_name = table_name],
                     column_name, search_term)

(* ---------------------------------------------------------------------- *)
(* Search Values                                                           *)
(* ---------------------------------------------------------------------- *)

\* resolved is the dict of search_values_node, kept in insertion order as a
\* sequence of [key, info] entries.
DictSet(d, key, info) ==
    IF \E i \in 1..Len(d) : d[i].key = key
    THEN [i \in 1..Len(d) |-> IF d[i].key = key THEN [key |-> key, info |-> info] ELSE d[i]]
    ELSE Append(d, [key |-> key, info |-> info])

\* repr of a float score kept in thousandths
ScoreRepr(n) ==
    IF n % 1000 = 0 THEN ToString(n \div 1000) \o ".0"
    ELSE LET d3 == n % 1000
             digits == (IF d3 < 10 THEN "00" ELSE IF d3 < 100 THEN "0" ELSE "") \o ToString(d3)
             cut == IF d3 % 100 = 0 THEN 1 ELSE IF d3 % 10 = 0 THEN 2 ELSE 3
         IN  ToString(n \div 1000) \o "." \o SubSeq(digits, 1, cut)

RECURSIVE ReprBody(_, _)
\* The characters of s as repr writes them between two quote characters
ReprBody(s, quote) ==
    IF Len(s) = 0 THEN ""
    ELSE (CASE SubSeq(s, 1, 1) = "\\" -> "\\\\"
            [] SubSeq(s, 1, 1) = "\n" -> "\\n"
            [] SubSeq(s, 1, 1) = "\t" -> "\\t"
            [] SubSeq(s, 1, 1) = "\r" -> "\\r"
            [] SubSeq(s, 1, 1) = quote -> "\\" \o quote
            [] OTHER -> SubSeq(s, 1, 1))
         \o ReprBody(SubSeq(s, 2, Len(s)), quote)

\* repr of a str: in double quotes when it holds a single quote and no
\* double quote, else in single quotes with the single quotes escaped
PyRepr(s) ==
    IF Contains(s, "'") /\ ~Contains(s, "\"")
    THEN "\"" \o ReprBody(s, "\"") \o "\""
    ELSE "'" \o ReprBody(s, "'") \o "'"

InfoRepr(info) ==
    "{'original_term': " \o PyRepr(info.original_term)
    \o ", 'actual_value': " \o PyRepr(info.actual_value)
    \o ", 'match_type': " \o PyRepr(info.match_type)
    \o ", 'score': " \o ScoreRepr(info.score) \o "}"

RECURSIVE JoinReprs(_)
JoinReprs(d) ==
    IF Len(d) = 0 THEN ""
    ELSE InfoRepr(Head(d).info) \o (IF Len(d) > 1 THEN ", " ELSE "") \o JoinReprs(Tail(d))

\* str(resolved.values())
StrOfValues(d) == "dict_values([" \o JoinReprs(d) \o "])"

\* graph.py:258-265, col_name and col_summary being lower case
TypeMatches(col_name, col_summary, likely_type) ==
    \/ Contains(col_name, likely_type)
    \/ Contains(col_summary, likely_type)
    \/ (likely_type = "city" /\ \E x \in {"city", "location", "address"} : Contains(col_name, x))
    \/ (likely_type = "status" /\ Contains(col_name, "status"))
    \/ (likely_type = "category" /\ \E x \in {"category", "type", "kind"} : Contains(col_name, x))
    \/ (likely_type = "name" /\ Contains(col_name, "name"))

\* graph.py:254-270
ColumnQualifies(column, likely_type) ==
    \/ TypeMatches(Lower(column.column_name),
                   IF Truthy(column.column_summary) THEN Lower(column.column_summary.v) ELSE "",
                   likely_type)
    \/ column.indexing_strategy = "categorical"

\* graph.py:281-290: the best match is kept under "table.column"
Resolve(probed, term, key, best_match) ==
    [probed EXCEPT !.resolved = DictSet(@, key,
                        [original_term |-> term.v,
                         actual_value  |-> best_match.value,
                         match_type    |-> best_match.match_type,
                         score         |-> best_match.score]),
                   !.found = TRUE]

\* The three loops carry acc = [resolved, probes, raised, found, log]: the
\* dict so far, the number of search_by_index calls made, whether an
\* exception has escaped, and the search_by_index calls in the order made.
RECURSIVE ScanColumns(_, _, _, _, _, _)
\* graph.py:279-291, column j once search_by_index has answered
AfterProbe(term, likely_type, table, j, probed, store_ok, search_result) ==
    IF search_result.status = "success" /\ Len(search_result.matches) > 0
    THEN Resolve(probed, term, table.table_name \o "." \o table.columns[j].column_name,
                 search_result.matches[1])
    ELSE ScanColumns(term, likely_type, table, j + 1, probed, store_ok)

\* graph.py:253-291, the columns of one table from position j on
ScanColumns(term, likely_type, table, j, acc, store_ok) ==
    IF j > Len(table.columns) THEN [acc EXCEPT !.found = FALSE]
    ELSE IF ~ColumnQualifies(table.columns[j], likely_type)
    THEN ScanColumns(term, likely_type, table, j + 1, acc, store_ok)
    ELSE AfterProbe(term, likely_type, table, j,
                    [acc EXCEPT !.probes = @ + 1,
                                !.log = Append(@, [term |-> term,
                                                   table_name |-> table.table_name,
                                                   column_name |-> table.columns[j].column_name])],
                    store_ok,
                    search_by_index(table.table_name, table.columns[j].column_name,
                                    term, store_ok))

RECURSIVE ScanTables(_, _, _, _, _, _)
\* graph.py:293-294, table i once its columns are scanned
AfterTable(term, likely_type, tables, i, after, store_ok) ==
    IF term.t # "str"
    THEN [after EXCEPT !.raised = TRUE]   \* "term in str(...)" is a TypeError
    ELSE IF Contains(StrOfValues(after.resolved), term.v)
         THEN after
         ELSE ScanTables(term, likely_type, tables, i + 1, after, store_ok)

\* graph.py:252-294, the tables from position i on
ScanTables(term, likely_type, tables, i, acc, store_ok) ==
    IF i > Len(tables) THEN acc
    ELSE AfterTable(term, likely_type, tables, i,
                    ScanColumns(term, likely_type, tables[i], 1, acc, store_ok), store_ok)

RECURSIVE ScanTerms(_, _, _, _, _)
\* graph.py:244-294, on to term k + 1 unless an exception has escaped
AfterTerm(terms, tables, k, after, store_ok) ==
    IF after.raised THEN after ELSE ScanTerms(terms, tables, k + 1, after, store_ok)

\* graph.py:245-294, term k with its term and likely_column_type read
ScanTerm(terms, tables, k, acc, store_ok, term, likely) ==
    IF likely.t # "str"
    THEN [acc EXCEPT !.raised = TRUE]   \* .lower() is an AttributeError
    ELSE IF ~Truthy(term)
    THEN ScanTerms(terms, tables, k + 1, acc, store_ok)
    ELSE AfterTerm(terms, tables, k,
                   ScanTables(term, Lower(likely.v), tables, 1, acc, store_ok), store_ok)

\* graph.py:244-294, the terms from position k on
ScanTerms(terms, tables, k, acc, store_ok) ==
    IF k > Len(terms) THEN acc
    ELSE IF terms[k].t # "dict"
    THEN [acc EXCEPT !.raised = TRUE]     \* term_info.get is an AttributeError
    ELSE ScanTerm(terms, tables, k, acc, store_ok,
                  DictGet(terms[k].v, "term", Str("")),
                  DictGet(terms[k].v, "likely_column_type", Str("")))

EmptyScan == [resolved |-> <<>>, probes |-> 0, raised |-> FALSE, found |-> FALSE, log |-> <<>>]

\* The lists searchable_terms can hold after Understand
TermLists ==
    {x.v : x \in {t \in {DictGet(r.parsed.v, "searchable_terms", List(<<>>)) :
                            r \in {q \in IntentReplies : q.kind = "json" /\ q.parsed.t = "dict"}} :
                    t.t = "list"}}

\* The lists table_insights can hold after Enrich
InsightLists ==
    {get_table_insights({o.results[i].table_name : i \in 1..Len(o.results)}, TRUE).tables :
        o \in {x \in SimilarityOutcomes : x.kind = "ok"}}

\* The lists of extracted terms given to search_values_node have at most
\* MaxTerms terms.
MaxTerms == 2

\* Terms the intent completion can extract from a question
ToolTerms == {"NYC", "NY", "new york ny", "Newark", "Joe's \"New York\"", "pending"}

ToolTermInfo(term) == Dict([term |-> Str(term), likely_column_type |-> Str("city")])

ToolTermLists == UNION {[1..n -> {ToolTermInfo(term) : term \in ToolTerms}] : n \in 1..MaxTerms}

\* The loops of search_values_node, worked out once for each pair of lists
\* (the lists Understand can leave, and the lists given to the node directly)
ScanTermsOf ==
    [direct \in BOOLEAN |->
        [terms \in IF direct THEN ToolTermLists ELSE TermLists |->
            [tables \in InsightLists |->
                [store_ok \in BOOLEAN |-> ScanTerms(terms, tables, 1, EmptyScan, store_ok)]]]]

\* The scan search_values_node runs on s, or EmptyScan where it returns early
SearchValuesScan(s, store_ok) ==
    IF s.intent = Str("GREETING") THEN EmptyScan
    ELSE IF ~Truthy(s.searchable_terms) \/ ~Truthy(s.table_insights) THEN EmptyScan
    ELSE IF s.searchable_terms.t # "list"
    THEN [EmptyScan EXCEPT !.raised = TRUE]    \* iterating a number is a TypeError
    ELSE ScanTermsOf[s.searchable_terms.v \notin TermLists][s.searchable_terms.v][s.table_insights.v][store_ok]

\* Variant of search_values_node that adds to the resolved_values already in
\* the state instead of starting from an empty dict; C17 must tell it from
\* the code.
search_values_node_Merging(s, store_ok) ==
    IF s.intent = Str("GREETING") THEN s
    ELSE [s EXCEPT !.resolved_values =
                     [t |-> "dict",
                      v |-> (IF @.t = "dict" THEN @.v ELSE <<>>)
                            \o SearchValuesScan(s, store_ok).resolved]]

search_values_node(s, store_ok) ==
    IF s.intent = Str("GREETING") THEN s
    ELSE [s EXCEPT !.resolved_values =
                     [t |-> "dict", v |-> SearchValuesScan(s, store_ok).resolved]]

SearchValues ==
    /\ pc = "search_values"
    /\ \E store_ok \in BOOLEAN :
         LET scan == SearchValuesScan(state, store_ok) IN
         /\ calls' = [calls EXCEPT !.value_search = Min(@ + scan.probes, MaxCalls)]
         /\ IF scan.raised
            THEN pc' = "raised" /\ state' = state
            ELSE pc' = "generate" /\ state' = search_values_node(state, store_ok)
    /\ UNCHANGED <<connection_cache, intent_reply, last_result, syntax_only, payload, sql_prompt>>
    /\ UNCHANGED beside_turn

(* ---------------------------------------------------------------------- *)
(* SQL extraction (graph.extract_sql)                                      *)
(* ---------------------------------------------------------------------- *)

StatementKeywords == {"select", "with", "insert", "update", "delete"}

\* The Markdown fence of three backticks; the texts of the model write the
\* backtick as a tilde, which no text of the model uses otherwise.
Fence == "~~~"

\* group 1 from p2 up to the closing fence
CodeBlockSpan(p2, close) == IF close = 0 THEN <<0, 0>> ELSE <<p2, close - 1>>

CodeBlockBody(text, p2) == CodeBlockSpan(p2, Find(text, Fence, p2))

\* the match whose opening fence is at open
CodeBlockFrom(text, open) ==
    IF open = 0 THEN <<0, 0>>
    ELSE CodeBlockBody(text, SkipSpaces(text, IF At(Lower(text), open + 3, "sql")
                                              THEN open + 6 ELSE open + 3))

\* re.search of the fenced block, fence (?:sql)?\s*(.*?) fence:
\* [from, to] of group 1, or <<0, 0>>
CodeBlockMatch(text) == CodeBlockFrom(text, Find(text, Fence, 1))

\* the indices at which "select" and a whitespace stand, low being text.lower()
SelectStarts(text, low) ==
    {i \in 1..Len(text) : At(low, i, "select") /\ i + 6 <= Len(text)
                           /\ IsSpace(SubSeq(text, i + 6, i + 6))}

SelectSpan(text, start, semi) ==
    IF semi > 0 THEN <<start, semi>> ELSE <<start, Len(text)>>

SelectFrom(text, start) ==
    IF start = 0 THEN <<0, 0>> ELSE SelectSpan(text, start, Find(text, ";", start + 7))

\* re.search(r"(SELECT\s+.*?(?:;|$))"): [from, to] of the match, or <<0, 0>>
SelectMatch(text) == SelectFrom(text, FirstOr0(SelectStarts(text, Lower(text))))

\* whether the lookahead \n\s*(?:SELECT|...) holds behind the semicolon at k,
\* n being the first index behind k that holds no whitespace
StatementFollows(sql, low, k, n) ==
    /\ \E m \in (k + 1)..(n - 1) : SubSeq(sql, m, m) = "\n"
    /\ \E kw \in StatementKeywords : At(low, n, kw)

StatementCuts(sql, low) ==
    {k \in 1..Len(sql) : /\ SubSeq(sql, k, k) = ";"
                         /\ StatementFollows(sql, low, k, SkipSpaces(sql, k + 1))}

\* The index of the first semicolon that
\* r";\s*(?=\n\s*(?:SELECT|WITH|INSERT|UPDATE|DELETE))" matches, or 0
MultiStmtSplit(sql) == FirstOr0(StatementCuts(sql, Lower(sql)))

\* graph.py:497-499: the trailing semicolon goes
WithoutSemicolon(first) ==
    Str(IF EndsWith(first, ";") THEN SubSeq(first, 1, Len(first) - 1) ELSE first)

\* graph.py:490-495: the first statement of found, cut being where it ends
FirstStatement(found, cut) ==
    WithoutSemicolon(IF cut > 0 THEN Strip(SubSeq(found, 1, cut - 1)) ELSE Strip(found))

\* graph.py:486-501
FromFound(found) ==
    IF found = "" THEN None ELSE FirstStatement(found, MultiStmtSplit(found))

\* graph.py:472-485: the text of the fenced block, else of the SELECT match,
\* else the whole text when it starts with SELECT
FoundSql(text, block, sel) ==
    IF block[1] > 0 THEN Strip(SubSeq(text, block[1], block[2]))
    ELSE IF sel[1] > 0 THEN Strip(SubSeq(text, sel[1], sel[2]))
    ELSE IF StartsWith(Lower(Strip(text)), "select") THEN Strip(text)
    ELSE ""

\* The statement extracted from the model's text, None when there is none
extract_sql(text) == FromFound(FoundSql(text, CodeBlockMatch(text), SelectMatch(text)))

(* ---------------------------------------------------------------------- *)
(* The query executor (tools.execute_sql_query) and rows_to_csv            *)
(* ---------------------------------------------------------------------- *)

PyBool(b) == [t |-> "bool", v |-> b]

\* A result of one row more than execute_sql_query keeps by default
OverMaxRows ==
    [columns |-> <<"id">>, rows |-> [i \in 1..(DEFAULT_MAX_ROWS + 1) |-> <<PyInt(1)>>]]

\* What conn.fetch returns for a statement: the column names and the rows
ResultSets ==
    {[columns |-> <<>>, rows |-> <<>>],
     [columns |-> <<"id", "note">>,
      rows |-> << <<PyInt(2), Str("a,b")>>, <<PyInt(3), None>> >>]}

\* One connect-and-run attempt: rows come back, or asyncpg raises
AttemptOutcomes ==
    {[kind |-> "rows", set |-> r] : r \in ResultSets \cup {OverMaxRows}} \cup
    {[kind |-> "conn_lost", msg |-> "unexpected connection_lost() call"],
     [kind |-> "timeout", msg |-> ""],
     [kind |-> "interface", msg |-> "connection is closed"],
     [kind |-> "syntax", msg |-> "syntax error at or near \"FORM\""],
     [kind |-> "other", msg |-> "column \"citi\" does not exist"],
     [kind |-> "other", msg |-> "Relation \"order\" does not exist"],
     [kind |-> "other", msg |-> "permission denied for table orders"]}

TransportRetried == {"conn_lost", "timeout"}

\* The database during one execute_sql_query call: the outcome of attempt k is
\* db[k], the last one standing for every later attempt.
DbBehaviours ==
    {<<o>> : o \in AttemptOutcomes} \cup
    {<<t, o>> : t \in {o \in AttemptOutcomes : o.kind = "conn_lost"},
                o \in {[kind |-> "rows", set |-> r] : r \in ResultSets}} \cup
    {<<t, o>> : t \in {o \in AttemptOutcomes : o.kind = "timeout"},
                o \in {o \in AttemptOutcomes : o.kind = "syntax"}} \cup
    {<<t, u, o>> : t \in {o \in AttemptOutcomes : o.kind = "conn_lost"},
                   u \in {o \in AttemptOutcomes : o.kind = "timeout"},
                   o \in {[kind |-> "rows", set |-> r] :
                             r \in {x \in ResultSets : Len(x.rows) > 0}}}

\* A dict cell of a row (a json or jsonb column): its items, in insertion order
PyDict(items) == [t |-> "pydict", v |-> items]

RECURSIVE _serialize_value(_)
_serialize_value(value) ==
    CASE value.t \in {"None", "int", "str", "bool"} -> value
      [] value.t = "list" -> List([i \in 1..Len(value.v) |-> _serialize_value(value.v[i])])
      [] value.t = "pydict" ->
            PyDict([i \in 1..Len(value.v) |->
                       [key |-> value.v[i].key, value |-> _serialize_value(value.v[i].value)]])
      [] OTHER -> Str(value.v)

EXECUTOR_MAX_RETRIES == 3

ExecError(message) == [status |-> "error", message |-> message, columns |-> <<>>, rows |-> <<>>]

\* tools.py:441, retry_delay = 1.0
RETRY_DELAY == 1

\* One call of execute_sql_query: the dict it returns, the attempts it made
\* and the sleeps between them
ExecReturn(result, attempt, waits) ==
    [result |-> result, attempts |-> attempt + 1, waits |-> waits]

\* Variant of ExecAttempt that tries once more than max_retries allows; C20
\* must tell it from the code.
RECURSIVE ExecAttempt_OneMoreTry(_, _, _, _)
ExecAttempt_OneMoreTry(db, attempt, max_rows, waits) ==
    LET o == db[Min(attempt + 1, Len(db))] IN
    CASE o.kind = "rows" ->
            IF Len(o.set.rows) = 0
            THEN ExecReturn([status |-> "success", message |-> "Query executed but returned no rows",
                             columns |-> <<>>, rows |-> <<>>, row_count |-> 0], attempt, waits)
            ELSE LET kept == Prefix(o.set.rows, max_rows)
                     data == [i \in 1..Len(kept) |->
                                [j \in 1..Len(o.set.columns) |-> _serialize_value(kept[i][j])]]
                 IN  ExecReturn([status |-> "success",
                                 message |-> "Returned " \o ToString(Len(data)) \o " rows (attempt "
                                             \o ToString(attempt + 1) \o ")",
                                 columns |-> o.set.columns, rows |-> data,
                                 row_count |-> Len(o.set.rows),
                                 truncated |-> Len(o.set.rows) > max_rows], attempt, waits)
      [] o.kind \in TransportRetried /\ attempt < EXECUTOR_MAX_RETRIES ->
            ExecAttempt_OneMoreTry(db, attempt + 1, max_rows,
                                   Append(waits, RETRY_DELAY * (attempt + 1)))
      [] o.kind = "syntax" -> ExecReturn(ExecError("SQL syntax error: " \o o.msg), attempt, waits)
      [] OTHER ->
            ExecReturn(ExecError("Query failed after " \o ToString(EXECUTOR_MAX_RETRIES)
                                 \o " attempts: " \o o.msg), attempt, waits)

\* Variant of ExecAttempt that reports truncation from max_rows rows on; C21
\* must tell it from the code.
RECURSIVE ExecAttempt_TruncatedAtLimit(_, _, _, _)
ExecAttempt_TruncatedAtLimit(db, attempt, max_rows, waits) ==
    LET o == db[Min(attempt + 1, Len(db))] IN
    CASE o.kind = "rows" ->
            IF Len(o.set.rows) = 0
            THEN ExecReturn([status |-> "success", message |-> "Query executed but returned no rows",
                             columns |-> <<>>, rows |-> <<>>, row_count |-> 0], attempt, waits)
            ELSE LET kept == Prefix(o.set.rows, max_rows)
                     data == [i \in 1..Len(kept) |->
                                [j \in 1..Len(o.set.columns) |-> _serialize_value(kept[i][j])]]
                 IN  ExecReturn([status |-> "success",
                                 message |-> "Returned " \o ToString(Len(data)) \o " rows (attempt "
                                             \o ToString(attempt + 1) \o ")",
                                 columns |-> o.set.columns, rows |-> data,
                                 row_count |-> Len(o.set.rows),
                                 truncated |-> Len(o.set.rows) >= max_rows], attempt, waits)
      [] o.kind \in TransportRetried /\ attempt < EXECUTOR_MAX_RETRIES - 1 ->
            ExecAttempt_TruncatedAtLimit(db, attempt + 1, max_rows, Append(waits, RETRY_DELAY * (attempt + 1)))
      [] o.kind = "syntax" -> ExecReturn(ExecError("SQL syntax error: " \o o.msg), attempt, waits)
      [] OTHER ->
            ExecReturn(ExecError("Query failed after " \o ToString(EXECUTOR_MAX_RETRIES)
                                 \o " attempts: " \o o.msg), attempt, waits)

RECURSIVE ExecAttempt(_, _, _, _)
\* tools.py:444-512, the loop from attempt (0-based) on, waits being the
\* sleeps of the attempts before it
ExecAttempt(db, attempt, max_rows, waits) ==
    LET o == db[Min(attempt + 1, Len(db))] IN
    CASE o.kind = "rows" ->
            IF Len(o.set.rows) = 0
            THEN ExecReturn([status |-> "success", message |-> "Query executed but returned no rows",
                             columns |-> <<>>, rows |-> <<>>, row_count |-> 0], attempt, waits)
            ELSE LET kept == Prefix(o.set.rows, max_rows)
                     data == [i \in 1..Len(kept) |->
                                [j \in 1..Len(o.set.columns) |-> _serialize_value(kept[i][j])]]
                 IN  ExecReturn([status |-> "success",
                                 message |-> "Returned " \o ToString(Len(data)) \o " rows (attempt "
                                             \o ToString(attempt + 1) \o ")",
                                 columns |-> o.set.columns, rows |-> data,
                                 row_count |-> Len(o.set.rows),
                                 truncated |-> Len(o.set.rows) > max_rows], attempt, waits)
      [] o.kind \in TransportRetried /\ attempt < EXECUTOR_MAX_RETRIES - 1 ->
            ExecAttempt(db, attempt + 1, max_rows, Append(waits, RETRY_DELAY * (attempt + 1)))
      [] o.kind = "syntax" -> ExecReturn(ExecError("SQL syntax error: " \o o.msg), attempt, waits)
      [] OTHER ->
            ExecReturn(ExecError("Query failed after " \o ToString(EXECUTOR_MAX_RETRIES)
                                 \o " attempts: " \o o.msg), attempt, waits)

\* One call of execute_sql_query; details is the cache entry of the
\* connection, None when there is none
ExecutorRun(details, max_rows, db) ==
    IF details = None
    THEN [result |-> ExecError("Connection details not found"), attempts |-> 0, waits |-> <<>>]
    ELSE ExecAttempt(db, 0, max_rows, <<>>)

\* The dict execute_sql_query returns
execute_sql_query(details, max_rows, db) == ExecutorRun(details, max_rows, db).result

get_connection_details(cache, connection_id) ==
    IF connection_id \in DOMAIN cache THEN [t |-> "details", v |-> cache[connection_id]] ELSE None

\* execute_sql_query(sql, connection_id) for each behaviour of the database,
\* with the cached details present
ExecutorResultOf ==
    [db \in DbBehaviours |->
        execute_sql_query([t |-> "details", v |-> ConnectionDetails], DEFAULT_MAX_ROWS, db)]

\* The attempts and sleeps of each of these calls
ExecutorRunOf ==
    [db \in DbBehaviours |->
        ExecutorRun([t |-> "details", v |-> ConnectionDetails], DEFAULT_MAX_ROWS, db)]

ExecutorResults ==
    {ExecutorResultOf[db] : db \in DbBehaviours} \cup
    {execute_sql_query(None, DEFAULT_MAX_ROWS, <<>>)}

RECURSIVE Join(_, _)
\* sep.join(parts)
Join(parts, sep) ==
    IF Len(parts) = 0 THEN ""
    ELSE IF Len(parts) = 1 THEN parts[1]
    ELSE Join(SubSeq(parts, 1, Len(parts) \div 2), sep) \o sep
         \o Join(SubSeq(parts, Len(parts) \div 2 + 1, Len(parts)), sep)

RECURSIVE DoubleQuotes(_)
\* val.replace('"', '""')
DoubleQuotes(val) ==
    IF Len(val) = 0 THEN ""
    ELSE (IF SubSeq(val, 1, 1) = "\"" THEN "\"\"" ELSE SubSeq(val, 1, 1))
         \o DoubleQuotes(SubSeq(val, 2, Len(val)))

RECURSIVE PyStr(_)
\* str(val) of a serialised cell that is not a string
PyStr(val) ==
    CASE val.t = "int"  -> ToString(val.v)
      [] val.t = "bool" -> IF val.v THEN "True" ELSE "False"
      [] val.t = "str"  -> "'" \o val.v \o "'"
      [] val.t = "list" -> "[" \o Join([i \in 1..Len(val.v) |-> PyStr(val.v[i])], ", ") \o "]"
      [] val.t = "pydict" ->
            "{" \o Join([i \in 1..Len(val.v) |->
                            "'" \o val.v[i].key \o "': " \o PyStr(val.v[i].value)], ", ") \o "}"
      [] OTHER -> "None"

CsvCell(val) ==
    CASE val.t = "None" -> ""
      [] val.t = "str" ->
            IF Contains(val.v, ",") \/ Contains(val.v, "\"") \/ Contains(val.v, "\n")
            THEN "\"" \o DoubleQuotes(val.v) \o "\""
            ELSE val.v
      [] OTHER -> PyStr(val)

rows_to_csv(columns, rows) ==
    LET lines == <<Join(columns, ",")>> \o
                 [i \in 1..Len(rows) |->
                     Join([j \in 1..Len(rows[i]) |-> CsvCell(rows[i][j])], ",")]
    IN  Join(lines, "\n")

(* ---------------------------------------------------------------------- *)
(* Generate                                                                *)
(* ---------------------------------------------------------------------- *)

\* What llm_sql.invoke can come to: it raises, or returns a text
SqlReplies ==
    {[kind |-> "raise", msg |-> "model unavailable"],
     [kind |-> "text", content |-> "I cannot answer that."],
     [kind |-> "text", content |-> "~~~sql\nSELECT id FROM orders;\n~~~"],
     [kind |-> "text", content |-> "<think>filter</think>SELECT * FROM orders WHERE city = 'New York';"],
     [kind |-> "text", content |-> "~~~sql\nSELECT id FROM orders;\nSELECT 1;\n~~~"],
     [kind |-> "text", content |-> "~~~sql\nSELECT id FROM orders; DELETE FROM orders;\n~~~"]}

\* What llm_explain.invoke can come to
ExplainReplies ==
    {[kind |-> "raise", msg |-> "model unavailable"],
     [kind |-> "text", content |-> "One order from New York. "]}

NO_TABLES_TEXT == "I couldn't find any relevant tables for your question."

NO_SQL_TEXT == "I couldn't generate a valid SQL query for your question."

generate_explanation(reply) ==
    IF reply.kind = "raise" THEN "Query executed successfully."
    ELSE Strip(StripThink(reply.content))

\* Variant of format_error_response that embeds the question where the
\* attempted SQL belongs; C6 must tell it from the code.
format_error_response_NoSql(question, sql, error) ==
    Json([error |-> TRUE,
          message |-> "I tried to answer your question but encountered an error: " \o error,
          attempted_sql |-> question,
          suggestion |-> "Try rephrasing your question or asking about specific tables/columns."])

format_error_response(question, sql, error) ==
    Json([error |-> TRUE,
          message |-> "I tried to answer your question but encountered an error: " \o error,
          attempted_sql |-> sql,
          suggestion |-> "Try rephrasing your question or asking about specific tables/columns."])

\* The executor messages that hold "syntax" (graph.py:427)
SyntaxMessages ==
    {m \in {r.message : r \in ExecutorResults} : Contains(Lower(m), "syntax")}

\* The executor messages that report a column that does not exist
ColumnNotFoundMessages ==
    {m \in {r.message : r \in ExecutorResults} :
        Contains(m, "column") /\ Contains(m, "does not exist")}

\* Variant of is_syntax_error that takes every message of a failed query for
\* a retryable one; C13 must tell it from the code.
is_syntax_error_AnyFailure(error_msg) ==
    \/ Contains(Lower(error_msg), "syntax")
    \/ Contains(Lower(error_msg), "column")
    \/ Contains(Lower(error_msg), "relation")
    \/ Contains(Lower(error_msg), "failed")

\* graph.py:426
is_syntax_error(error_msg) ==
    \/ Contains(Lower(error_msg), "syntax")
    \/ Contains(Lower(error_msg), "column")
    \/ Contains(Lower(error_msg), "relation")

\* The string work of generate_node, done once for each text the model's
\* services produce
IsSyntaxErrorOf == [error_msg \in {r.message : r \in ExecutorResults} |-> is_syntax_error(error_msg)]

CsvOf ==
    [r \in {x \in ExecutorResults : x.status = "success"} |-> rows_to_csv(r.columns, r.rows)]

ExplanationOf == [reply \in ExplainReplies |-> generate_explanation(reply)]

RETRY_PREFIX == "\nPREVIOUS ATTEMPT FAILED with error: "

RETRY_HINTS ==
    "\n\nPlease fix the SQL based on this error. Common fixes:\n- Check column names match exactly (case-sensitive)\n- Check table names are correct\n- Ensure proper quoting of identifiers with special characters\n- Check data types match the operation (e.g., no string operations on numbers)\n"

\* graph.py:371-379, for each message last_sql_error can hold
RetryContextOf ==
    [error_msg \in {r.message : r \in ExecutorResults} |-> RETRY_PREFIX \o error_msg \o RETRY_HINTS]

\* graph.py:368-379
retry_context(s) ==
    IF s.sql_attempts > 0 /\ Truthy(s.last_sql_error)
    THEN RetryContextOf[s.last_sql_error.v]
    ELSE ""

\* graph.py:382-402: of the prompt the model keeps the question and the retry
\* context; the schema context and the value hints are left out
SqlPrompt(s) == [t |-> "prompt", question |-> s.question, retry_context |-> retry_context(s)]

\* graph.py:313-319: generate_node returns before building a prompt
GenerateReturnsEarly(s) ==
    \/ (s.intent = Str("GREETING") /\ Truthy(s.response))
    \/ ~Truthy(s.relevant_tables)

\* graph.py:405-410: the statement of this invocation, None when there is none
GeneratedSqlOf ==
    [reply \in SqlReplies |->
        IF reply.kind = "raise" THEN None ELSE extract_sql(Strip(StripThink(reply.content)))]

GeneratedSql(reply) == GeneratedSqlOf[reply]

\* The statements generate_node can hand to the executor
GeneratedStatements == {GeneratedSqlOf[reply].v : reply \in {r \in SqlReplies : GeneratedSqlOf[r] # None}}

\* Whether this invocation reaches execute_sql_query (graph.py:421)
ReachesExecutor(s, reply) ==
    ~GenerateReturnsEarly(s) /\ reply.kind # "not_called" /\ GeneratedSql(reply) # None

\* Variant of AfterExecution whose retry test is off by one (sql_attempts <
\* MAX_SQL_RETRIES); C4 must tell it from the code.
AfterExecution_CeilingOffByOne(s, sql, result, explain) ==
    IF result.status = "error"
    THEN LET error_msg == result.message IN
         IF IsSyntaxErrorOf[error_msg] /\ s.sql_attempts < MAX_SQL_RETRIES
         THEN [s EXCEPT !.sql_attempts = s.sql_attempts + 1,
                        !.last_sql_error = Str(error_msg)]
         ELSE [s EXCEPT !.error = Str(error_msg),
                        !.response = format_error_response(s.question, sql, error_msg)]
    ELSE LET ok == [s EXCEPT !.columns = List(result.columns), !.data = List(result.rows)] IN
         IF s.explain_mode
         THEN LET explanation == ExplanationOf[explain] IN
              [ok EXCEPT !.explanation = Str(explanation),
                         !.response = Json([sql |-> sql, explanation |-> explanation,
                                            data |-> result.rows, columns |-> result.columns,
                                            row_count |-> result.row_count])]
         ELSE [ok EXCEPT !.response = Str(CsvOf[result])]

\* Variant of AfterExecution that drops the resolved values when it asks for
\* a retry; C27 must tell it from the code.
AfterExecution_RetryDropsResolved(s, sql, result, explain) ==
    IF result.status = "error"
    THEN LET error_msg == result.message IN
         IF IsSyntaxErrorOf[error_msg] /\ s.sql_attempts < MAX_SQL_RETRIES - 1
         THEN [s EXCEPT !.sql_attempts = s.sql_attempts + 1,
                        !.last_sql_error = Str(error_msg),
                        !.resolved_values = None]
         ELSE [s EXCEPT !.error = Str(error_msg),
                        !.response = format_error_response(s.question, sql, error_msg)]
    ELSE LET ok == [s EXCEPT !.columns = List(result.columns), !.data = List(result.rows)] IN
         IF s.explain_mode
         THEN LET explanation == ExplanationOf[explain] IN
              [ok EXCEPT !.explanation = Str(explanation),
                         !.response = Json([sql |-> sql, explanation |-> explanation,
                                            data |-> result.rows, columns |-> result.columns,
                                            row_count |-> result.row_count])]
         ELSE [ok EXCEPT !.response = Str(CsvOf[result])]

\* graph.py:423-458, from the executor's result on
AfterExecution(s, sql, result, explain) ==
    IF result.status = "error"
    THEN LET error_msg == result.message IN
         IF IsSyntaxErrorOf[error_msg] /\ s.sql_attempts < MAX_SQL_RETRIES - 1
         THEN [s EXCEPT !.sql_attempts = s.sql_attempts + 1,
                        !.last_sql_error = Str(error_msg)]
         ELSE [s EXCEPT !.error = Str(error_msg),
                        !.response = format_error_response(s.question, sql, error_msg)]
    ELSE LET ok == [s EXCEPT !.columns = List(result.columns), !.data = List(result.rows)] IN
         IF s.explain_mode
         THEN LET explanation == ExplanationOf[explain] IN
              [ok EXCEPT !.explanation = Str(explanation),
                         !.response = Json([sql |-> sql, explanation |-> explanation,
                                            data |-> result.rows, columns |-> result.columns,
                                            row_count |-> result.row_count])]
         ELSE [ok EXCEPT !.response = Str(CsvOf[result])]

generate_node(s, reply, result, explain) ==
    IF s.intent = Str("GREETING") /\ Truthy(s.response) THEN s
    ELSE IF ~Truthy(s.relevant_tables)
    THEN [s EXCEPT !.response = Str(NO_TABLES_TEXT), !.error = Str("No tables to query")]
    ELSE IF reply.kind = "raise"
    THEN [s EXCEPT !.error = Str(reply.msg),
                   !.response = Str("Error generating response: " \o reply.msg)]
    ELSE LET sql == GeneratedSql(reply) IN
         IF ~Truthy(sql)
         THEN [s EXCEPT !.error = Str("Could not generate valid SQL"),
                        !.response = Str(NO_SQL_TEXT)]
         ELSE AfterExecution([s EXCEPT !.generated_sql = sql, !.sql_query = sql],
                             sql.v, result, explain)

should_retry_generate(s) ==
    IF /\ Truthy(s.last_sql_error)
       /\ s.sql_attempts > 0
       /\ s.sql_attempts < MAX_SQL_RETRIES
       /\ ~Truthy(s.response)
    THEN "generate"
    ELSE "end"

\* Stands for the reply of a service the invocation does not call
NotCalled == [kind |-> "not_called"]

\* One invocation of generate_node and the conditional edge after it. An
\* outcome is drawn for each service the invocation calls: the SQL completion
\* unless the node returns early, the database when a statement was extracted,
\* the explanation completion when the query succeeded in explain mode.
Generate ==
    /\ pc = "generate"
    /\ \E reply \in (IF GenerateReturnsEarly(state) THEN {NotCalled} ELSE SqlReplies) :
         LET executed == ReachesExecutor(state, reply) IN
         \E db \in (IF executed THEN DbBehaviours ELSE {<<>>}) :
           LET details == get_connection_details(connection_cache, state.connection_id)
               result == IF details = None
                         THEN execute_sql_query(None, DEFAULT_MAX_ROWS, db)
                         ELSE ExecutorResultOf[db]
               explained == executed /\ result.status = "success" /\ state.explain_mode
           IN  /\ last_result' = IF executed
                                 THEN [t |-> "result", v |-> result,
                                       db |-> IF details = None THEN <<>> ELSE db,
                                       attempts |-> IF details = None THEN 0
                                                    ELSE ExecutorRunOf[db].attempts,
                                       waits |-> IF details = None THEN <<>>
                                                 ELSE ExecutorRunOf[db].waits]
                                 ELSE None
               /\ syntax_only' = IF executed
                                 THEN syntax_only /\ result.status = "error"
                                                  /\ result.message \in SyntaxMessages
                                 ELSE syntax_only
               /\ sql_prompt' = IF GenerateReturnsEarly(state) THEN sql_prompt
                                ELSE SqlPrompt(state)
               /\ calls' = [calls EXCEPT
                      !.llm_sql = IF GenerateReturnsEarly(state) THEN @ ELSE Bump(@),
                      !.executor = IF executed THEN Bump(@) ELSE @,
                      !.llm_explain = IF explained THEN Bump(@) ELSE @]
               /\ \E explain \in (IF explained THEN ExplainReplies ELSE {NotCalled}) :
                    LET after == generate_node(state, reply, result, explain)
                    IN  /\ state' = after
                        /\ pc' = IF should_retry_generate(after) = "generate"
                                 THEN "generate" ELSE "END"
    /\ UNCHANGED <<connection_cache, intent_reply, payload>>
    /\ UNCHANGED beside_turn

\* graph.py:626-635: the graph reached END and run_agent builds its result
RunAgentReturn ==
    /\ pc = "END"
    /\ payload' = [t |-> "payload",
                   v |-> [response    |-> state.response,
                          sql         |-> state.sql_query,
                          explanation |-> state.explanation,
                          data        |-> state.data,
                          columns     |-> state.columns,
                          error       |-> state.error]]
    /\ pc' = "returned"
    /\ UNCHANGED <<state, connection_cache, calls, intent_reply, last_result, syntax_only, sql_prompt>>
    /\ UNCHANGED beside_turn

Next ==
    \/ Understand
    \/ Retrieve
    \/ Enrich
    \/ SearchValues
    \/ Generate
    \/ RunAgentReturn

Spec == Init /\ [][Next]_vars

\* Every node of the graph is run once it is due: the event loop runs the turn on.
FairSpec == Spec /\ WF_vars(Next)

(* ---------------------------------------------------------------------- *)
(* Claims                                                                  *)
(* ---------------------------------------------------------------------- *)

Ended == pc \in {"END", "returned"}

\* The executor result of the latest Generate invocation, when it made the call
Executed == last_result.t = "result"

ExecutorFailedRetryably ==
    /\ Executed
    /\ last_result.v.status = "error"
    /\ IsSyntaxErrorOf[last_result.v.message]

\* C1: in one turn Generate issues at most MAX_SQL_RETRIES SQL-generation
\* completion calls and at most MAX_SQL_RETRIES executor calls.
C1_AtMostMaxRetriesCalls ==
    /\ calls.llm_sql <= MAX_SQL_RETRIES
    /\ calls.executor <= MAX_SQL_RETRIES

\* C2: every turn eventually leaves the graph: the Generate -> Generate
\* self-loop is not taken for ever.
C2_TurnEventuallyEnds == <>(pc \in {"END", "returned", "raised"})

\* C3: after a Generate invocation the graph goes back to Generate exactly when
\* that invocation's executor call failed with a syntax, column or relation
\* message, sql_attempts before it was below MAX_SQL_RETRIES - 1 and no
\* response is set; otherwise it goes to END.
C3_RetryExactlyOnRetryableError ==
    [][pc = "generate" =>
        /\ pc' \in {"generate", "END"}
        /\ (pc' = "generate") <=>
              (/\ ExecutorFailedRetryably'
               /\ state.sql_attempts < MAX_SQL_RETRIES - 1
               /\ state'.response = None)]_vars

\* C4: sql_attempts starts at 0, only Generate changes it, only by +1 and only
\* on a retryable executor error, and it never exceeds MAX_SQL_RETRIES - 1.
C4_SqlAttemptsBounded ==
    /\ state.sql_attempts = 0
    /\ [](state.sql_attempts \in 0..(MAX_SQL_RETRIES - 1))
    /\ [][state'.sql_attempts # state.sql_attempts =>
            /\ pc = "generate"
            /\ state'.sql_attempts = state.sql_attempts + 1
            /\ ExecutorFailedRetryably']_vars

C4_Witness == state.sql_attempts = MAX_SQL_RETRIES - 1 /\ pc = "returned"

\* C5: a state never holds both a response set by Generate and a pending
\* retry: once response is set, should_retry_generate answers "end".
C5_NoResponseWithPendingRetry ==
    state.response # None => should_retry_generate(state) = "end"

\* Every executor call of the turn so far has failed with a "syntax" message
EveryExecutorCallFailedWithSyntax == calls.executor > 0 /\ syntax_only

\* C6: when every executor call of the turn fails with a "syntax" message (and
\* the latest Generate invocation got as far as the executor), sql_attempts is
\* the number of failed calls up to 2, the third failure does not increment it
\* but ends the turn with error set to the executor message and response the
\* error payload that embeds the attempted SQL and a rephrase suggestion.
C6_SyntaxErrorsExhaustRetries ==
    (EveryExecutorCallFailedWithSyntax /\ Executed) =>
        /\ calls.executor <= MAX_SQL_RETRIES
        /\ state.sql_attempts = Min(calls.executor, MAX_SQL_RETRIES - 1)
        /\ calls.executor < MAX_SQL_RETRIES =>
              pc = "generate" /\ state.response = None
        /\ calls.executor = MAX_SQL_RETRIES =>
              /\ Ended
              /\ state.error = Str(last_result.v.message)
              /\ state.response.t = "json"
              /\ state.response.v.error = TRUE
              /\ state.response.v.attempted_sql = state.sql_query.v
              /\ state.response.v.message =
                    "I tried to answer your question but encountered an error: "
                    \o last_result.v.message
              /\ Len(state.response.v.suggestion) > 0

C6_Witness ==
    /\ pc = "returned"
    /\ EveryExecutorCallFailedWithSyntax
    /\ Executed
    /\ calls.executor = MAX_SQL_RETRIES

\* C7: once Understand has set intent to GREETING, Retrieve, Enrich, Search
\* Values and Generate leave the state as it is and call no service, and the
\* turn returns the canned greeting with sql, data, columns and explanation
\* absent.
C7_GreetingShortCircuits ==
    /\ [][(state.intent = Str("GREETING")
            /\ pc \in {"retrieve", "enrich", "search_values", "generate"}) =>
            /\ state' = state
            /\ calls' = calls
            /\ pc' # "raised"]_vars
    /\ []((state.intent = Str("GREETING") /\ pc = "returned") =>
            /\ payload.v.response = Str(GREETING_TEXT)
            /\ payload.v.sql = None
            /\ payload.v.data = None
            /\ payload.v.columns = None
            /\ payload.v.explanation = None)
    /\ []((state.intent = Str("GREETING") /\ pc # "understand") =>
            state.response = Str(GREETING_TEXT))

C7_Witness == state.intent = Str("GREETING") /\ pc = "returned"

\* C8: when Retrieve found no relevant table, the turn calls neither the
\* metadata store, nor value search, nor the SQL completion, nor the executor,
\* and returns the no-relevant-tables response with error set and sql absent.
C8_NoTablesNoCalls ==
    (state.relevant_tables = List(<<>>)) =>
        /\ calls.insights = 0
        /\ calls.value_search = 0
        /\ calls.llm_sql = 0
        /\ calls.executor = 0
        /\ pc # "raised"
        /\ Ended => /\ state.response = Str(NO_TABLES_TEXT)
                    /\ Truthy(state.error)
        /\ pc = "returned" =>
              /\ payload.v.response = Str(NO_TABLES_TEXT)
              /\ Truthy(payload.v.error)
              /\ payload.v.sql = None

C8_Witness == state.relevant_tables = List(<<>>) /\ pc = "returned"

\* C9: no exception escapes run_agent, whatever the completion service
\* returns and whichever service fails.
C9_NoExceptionEscapes == pc # "raised"

\* C10: Understand never raises: it always hands over to Retrieve; when the
\* completion call raised, intent is the default intent, searchable_terms is
\* empty and the warning is in error; when the text is not JSON, the default
\* intent with empty terms is used unless the fallback greeting detection
\* fires.
C10_UnderstandNeverRaises ==
    [][pc = "understand" =>
        /\ pc' = "retrieve"
        /\ intent_reply'.kind = "raise" =>
              /\ state'.intent = Str("Find data related to: " \o state.question)
              /\ state'.searchable_terms = List(<<>>)
              /\ state'.error = Str("Intent parsing warning: " \o intent_reply'.msg)
              /\ state'.response = None
        /\ intent_reply'.kind = "text" =>
              /\ state'.searchable_terms = List(<<>>)
              /\ state'.error = None
              /\ IF FallbackGreetingOf[state.question]
                 THEN state'.intent = Str("GREETING")
                 ELSE /\ state'.intent = Str("Find data related to: " \o state.question)
                      /\ state'.response = None]_vars

C10_Witness == pc = "retrieve" /\ intent_reply.kind = "raise"

\* The semicolons of sql behind which, after one or more whitespace
\* characters, a statement keyword stands; low is sql.lower()
StatementBoundaries(sql, low) ==
    {k \in 1..Len(sql) : /\ SubSeq(sql, k, k) = ";"
                         /\ SkipSpaces(sql, k + 1) > k + 1
                         /\ \E kw \in StatementKeywords : At(low, SkipSpaces(sql, k + 1), kw)}

\* Whether sql is one statement with no semicolon at its end
SingleStatementOf ==
    [sql \in GeneratedStatements |->
        StatementBoundaries(sql, Lower(sql)) = {} /\ ~EndsWith(sql, ";")]

\* C11: the statement extract_sql hands to the executor holds no semicolon
\* followed by whitespace and a statement keyword (SELECT, WITH, INSERT,
\* UPDATE, DELETE), and no trailing semicolon: only the first statement of the
\* model's text is kept.
C11_OnlyFirstStatementKept ==
    state.sql_query # None => SingleStatementOf[state.sql_query.v]

\* The latest Generate invocation was the first of the turn and its executor
\* call failed because a column does not exist
FirstAttemptColumnNotFound ==
    /\ ExecutorFailedRetryably
    /\ calls.executor = 1
    /\ last_result.v.message \in ColumnNotFoundMessages

\* C12: after a first Generate attempt that failed with a column-not-found
\* executor error, the second invocation runs with sql_attempts = 1 and a
\* prompt that holds the error message; when its execution succeeds the turn
\* goes to END with the rows and columns of that execution, sql_attempts
\* still 1 and no third SQL generation.
C12_SecondAttemptSucceeds ==
    /\ [](FirstAttemptColumnNotFound =>
            /\ pc = "generate"
            /\ state.sql_attempts = 1
            /\ state.last_sql_error = Str(last_result.v.message))
    /\ [][(FirstAttemptColumnNotFound /\ pc = "generate") =>
            /\ sql_prompt'.retry_context =
                  RETRY_PREFIX \o last_result.v.message \o RETRY_HINTS
            /\ (Executed' /\ last_result'.v.status = "success") =>
                  /\ pc' = "END"
                  /\ state'.sql_attempts = 1
                  /\ state'.sql_query.v \in GeneratedStatements
                  /\ state'.data = List(last_result'.v.rows)
                  /\ state'.columns = List(last_result'.v.columns)
                  /\ calls'.llm_sql = 2]_vars

\* What the database did at attempt k (1-based) of the latest executor call
OutcomeAt(k) == last_result.db[Min(k, Len(last_result.db))]

\* The latest Generate invocation called the executor, which found the
\* connection details and went on to the database
ExecutorRan == Executed /\ last_result.attempts > 0

\* Some attempt of the latest executor call lost the connection or timed out
TransportFailed ==
    /\ ExecutorRan
    /\ \E k \in 1..last_result.attempts : OutcomeAt(k).kind \in TransportRetried

\* The last attempt of that call failed so too: the executor gave up
TransportExhausted ==
    /\ TransportFailed
    /\ OutcomeAt(last_result.attempts).kind \in TransportRetried

\* The result of the same call had its last attempt been the first
ResultWithoutTransportFailure == ExecutorResultOf[<<OutcomeAt(last_result.attempts)>>]

\* C13: a connection loss or timeout inside execute_sql_query never drives
\* the workflow's SQL retry. When the executor gives up after its own
\* retries, the Generate invocation leaves sql_attempts and last_sql_error as
\* they were and goes to END with the error in the payload; when the executor
\* recovers, the invocation ends exactly as it would have, had the recovering
\* attempt been the first, and rows that come back after a recovery leave
\* sql_attempts and last_sql_error as they were.
C13_TransportRetryIndependent ==
    [][(pc = "generate" /\ TransportFailed') =>
         IF TransportExhausted'
         THEN /\ state'.sql_attempts = state.sql_attempts
              /\ state'.last_sql_error = state.last_sql_error
              /\ pc' = "END"
              /\ state'.error = Str(last_result'.v.message)
              /\ state'.response.t = "json"
              /\ state'.response.v.error = TRUE
         ELSE /\ \E reply \in {r \in SqlReplies : GeneratedSqlOf[r] # None} :
                   \E explain \in (IF state.explain_mode /\ last_result'.v.status = "success"
                                    THEN ExplainReplies ELSE {NotCalled}) :
                      /\ state' = generate_node(state, reply,
                                                ResultWithoutTransportFailure', explain)
                      /\ (pc' = "generate") <=> (should_retry_generate(state') = "generate")
              /\ last_result'.v.status = "success" =>
                    /\ state'.sql_attempts = state.sql_attempts
                    /\ state'.last_sql_error = state.last_sql_error]_vars

C13_Witness ==
    /\ pc = "returned"
    /\ TransportExhausted
    /\ state.sql_attempts = 1

\* C20: one execute_sql_query call makes at most EXECUTOR_MAX_RETRIES
\* attempts; every attempt but the last ended in a lost connection or a
\* timeout; the call slept 1, then 2, time units between attempts; a syntax
\* error or any other failure is reported by the attempt that met it.
C20_ExecutorRetriesBounded ==
    ExecutorRan =>
        /\ last_result.attempts \in 1..EXECUTOR_MAX_RETRIES
        /\ \A k \in 1..(last_result.attempts - 1) : OutcomeAt(k).kind \in TransportRetried
        /\ last_result.waits = [k \in 1..(last_result.attempts - 1) |-> k]
        /\ OutcomeAt(last_result.attempts).kind \in {"syntax", "other", "interface"} =>
              /\ last_result.v.status = "error"
              /\ Len(last_result.db) = last_result.attempts
        /\ OutcomeAt(last_result.attempts).kind = "rows" => last_result.v.status = "success"

C20_Witness ==
    /\ ExecutorRan
    /\ last_result.attempts = EXECUTOR_MAX_RETRIES
    /\ last_result.waits = <<1, 2>>
    /\ last_result.v.status = "success"

\* C17: Resolve Values run again on the state it has just produced, with the
\* same searchable_terms, table_insights and value-search answers, yields the
\* same resolved_values: no entry is added twice and none is merged.
C17_ResolveValuesIdempotent ==
    [][(pc = "search_values" /\ pc' = "generate") =>
         \E store_ok \in BOOLEAN :
            /\ state' = search_values_node(state, store_ok)
            /\ search_values_node(state', store_ok) = state'
            /\ search_values_node(state', store_ok).resolved_values = state'.resolved_values]_vars

C17_Witness ==
    /\ pc = "generate"
    /\ calls.llm_sql = 0
    /\ state.resolved_values.t = "dict"
    /\ Len(state.resolved_values.v) > 0

\* The question is one of the greeting phrases, trimmed and case-folded
WholeGreeting(question) ==
    \E i \in 1..Len(greetings) : Strip(Lower(question)) = greetings[i]

\* C24: when the completion's text is not JSON, Understand sets the intent to
\* GREETING only for a question that is, trimmed and case-folded, one of the
\* greeting phrases and has at most three words; a question of at most three
\* words that is not such a phrase gets the default intent.
C24_GreetingFallbackWholePhrase ==
    (intent_reply # None /\ intent_reply.kind = "text") =>
        /\ state.intent = Str("GREETING") =>
              (WholeGreeting(state.question) /\ WordCount(state.question) <= 3)
        /\ (WordCount(state.question) <= 3 /\ ~WholeGreeting(state.question)) =>
              state.intent = DefaultIntent(state.question)

\* What the stages before Generate leave in the state
Retrieved(s) ==
    <<s.question, s.connection_id, s.explain_mode, s.intent, s.searchable_terms,
      s.relevant_tables, s.table_insights, s.resolved_values>>

\* C27: a Generate invocation leaves question, connection_id, explain_mode,
\* intent, searchable_terms, relevant_tables, table_insights and
\* resolved_values as they were, makes no similarity-search, metadata-store
\* or value-search call, and is followed by Generate again or by the end of
\* the turn.
C27_RetryRerunsOnlyGenerate ==
    [][pc = "generate" =>
          /\ Retrieved(state') = Retrieved(state)
          /\ calls'.search = calls.search
          /\ calls'.insights = calls.insights
          /\ calls'.value_search = calls.value_search
          /\ pc' \in {"generate", "END"}]_vars

\* Generate is about to run again after a retryable error, with a value
\* resolved before the first invocation
C27_Witness ==
    /\ pc = "generate"
    /\ calls.llm_sql >= 1
    /\ state.sql_attempts >= 1
    /\ calls.value_search >= 1
    /\ state.resolved_values.t = "dict"
    /\ Len(state.resolved_values.v) > 0

\* The turn has returned after an execution that succeeded: data and columns
\* are those of the executor's result
ReturnedSuccess ==
    /\ pc = "returned"
    /\ Executed
    /\ last_result.v.status = "success"
    /\ payload.v.data = List(last_result.v.rows)
    /\ payload.v.columns = List(last_result.v.columns)

\* C28: the payload of a turn that ended with a successful execution has no
\* error, whatever the earlier stages and attempts of the turn did.
C28_NoErrorOnSuccess == ReturnedSuccess => payload.v.error = None

\* C29: the row_count of an explain-mode success payload is the number of
\* rows in its data, also when the query produced more than max_rows rows.
C29_RowCountIsLenData ==
    (/\ ReturnedSuccess
     /\ payload.v.response.t = "json"
     /\ "row_count" \in DOMAIN payload.v.response.v) =>
        payload.v.response.v.row_count = Len(payload.v.data.v)

(* ---------------------------------------------------------------------- *)
(* The tools called on their own                                           *)
(* ---------------------------------------------------------------------- *)

\* The rows given to rows_to_csv have at most MaxRows rows, the categorical
\* columns given to search_by_index at most MaxValues values.
MaxRows == 2

MaxValues == 3

\* The serialised cells a row of the executor can hold (tools.py:523-534)
Cells ==
    {None, PyInt(7), PyBool(TRUE), Str("plain"), Str("a,b"), Str("say \"hi\""), Str("x\ny"),
     List(<<PyInt(1), PyInt(2)>>),
     PyDict(<<[key |-> "k", value |-> PyInt(1)], [key |-> "j", value |-> Str("v")]>>)}

\* The sequences over S of length lo..hi
SeqsOf(S, lo, hi) == UNION {[1..n -> S] : n \in lo..hi}

RowsToCsvCalls ==
    {[fn |-> "rows_to_csv", columns |-> columns, rows |-> rows, returned |-> None] :
        columns \in {<<"a">>}, rows \in SeqsOf([1..1 -> Cells], 0, MaxRows)} \cup
    {[fn |-> "rows_to_csv", columns |-> columns, rows |-> rows, returned |-> None] :
        columns \in {<<"a", "b">>}, rows \in SeqsOf([1..2 -> Cells], 0, MaxRows - 1)}

CategoricalValues == {"Deputy", "Department", "Dept", "Sales", "Newton", "NYC"}

SearchTerms == {"dept", "new york", "NYC", "sale"}

\* A table of the metadata store with one categorical column
CategoricalTable(values) ==
    [table_name |-> "staff", schema_name |-> "public", row_count |-> 3, summary |-> "Staff",
     columns |-> <<[column_name |-> "unit", data_type |-> "text", column_summary |-> None,
                    indexing_strategy |-> "categorical", categorical_values |-> values,
                    sample_values |-> <<>>]>>]

SearchByIndexCalls ==
    {[fn |-> "search_by_index", table |-> CategoricalTable(values), column_name |-> "unit",
      search_term |-> Str(term), returned |-> None] :
        values \in SeqsOf(CategoricalValues, 1, MaxValues), term \in SearchTerms}

\* No turn runs and no host process serves any
TurnIdle ==
    /\ pc = "idle"
    /\ state = None
    /\ connection_cache = <<>>
    /\ calls = NoCalls
    /\ intent_reply = None
    /\ last_result = None
    /\ syntax_only = TRUE
    /\ payload = None
    /\ sql_prompt = None

turn_vars ==
    <<pc, state, connection_cache, calls, intent_reply, last_result, syntax_only, payload,
      sql_prompt>>

\* What conn.fetch returns in the calls of execute_sql_query made on its own:
\* up to one row more than the largest max_rows of these calls
ToolResultSets ==
    {[columns |-> <<"id">>, rows |-> [i \in 1..n |-> <<PyInt(i)>>]] : n \in 0..(MaxRows + 1)}

ToolOutcomes ==
    {[kind |-> "rows", set |-> r] : r \in ToolResultSets} \cup
    {o \in AttemptOutcomes : o.kind # "rows"}

\* The database during one of these calls: any outcome, behind up to two
\* failures the executor retries
ToolDbBehaviours ==
    {<<o>> : o \in ToolOutcomes} \cup
    {<<t, o>> : t \in {x \in ToolOutcomes : x.kind \in TransportRetried}, o \in ToolOutcomes} \cup
    {<<t, u, o>> : t \in {x \in ToolOutcomes : x.kind = "conn_lost"},
                   u \in {x \in ToolOutcomes : x.kind = "timeout"},
                   o \in ToolOutcomes}

\* execute_sql_query as it is entered: no attempt made, no connection open
ExecuteSqlQueryCalls ==
    {[fn |-> "execute_sql_query", details |-> details, max_rows |-> max_rows, db |-> db,
      at |-> "called", attempt |-> 0, conn |-> FALSE, open |-> 0, opened |-> 0,
      waits |-> <<>>, last_error |-> "", result |-> None, next |-> "none",
      returned |-> None] :
        details \in {None, [t |-> "details", v |-> ConnectionDetails]},
        max_rows \in 0..MaxRows,
        db \in ToolDbBehaviours}

\* What the database does in the attempt the call is at
OutcomeNow(x) == x.db[Min(x.attempt + 1, Len(x.db))]

\* The errors asyncpg.connect can raise as well as conn.fetch
RaisedByConnect == {"conn_lost", "timeout", "interface"}

\* tools.py:424-431
ExecutorStart ==
    /\ tool.fn = "execute_sql_query"
    /\ tool.at = "called"
    /\ tool' = IF tool.details = None
               THEN [tool EXCEPT !.at = "returned",
                                 !.returned = ExecError("Connection details not found")]
               ELSE [tool EXCEPT !.at = "connect"]
    /\ UNCHANGED <<turn_vars, turns, loop, write_log>>

\* tools.py:445-457: conn = None, then asyncpg.connect answers or raises
ExecutorConnect ==
    /\ tool.fn = "execute_sql_query"
    /\ tool.at = "connect"
    /\ \E raises \in (IF OutcomeNow(tool).kind \in RaisedByConnect THEN BOOLEAN ELSE {FALSE}) :
         tool' = IF raises
                 THEN [tool EXCEPT !.conn = FALSE, !.at = "except"]
                 ELSE [tool EXCEPT !.conn = TRUE, !.open = @ + 1, !.opened = @ + 1,
                                   !.at = "fetch"]
    /\ UNCHANGED <<turn_vars, turns, loop, write_log>>

\* tools.py:460-484: conn.fetch answers and the result dict is built, or it raises
ExecutorFetch ==
    /\ tool.fn = "execute_sql_query"
    /\ tool.at = "fetch"
    /\ tool' = IF OutcomeNow(tool).kind = "rows"
               THEN [tool EXCEPT !.result = ExecAttempt(<<OutcomeNow(tool)>>, tool.attempt,
                                                        tool.max_rows, <<>>).result,
                                 !.next = "return",
                                 !.at = "finally"]
               ELSE [tool EXCEPT !.at = "except"]
    /\ UNCHANGED <<turn_vars, turns, loop, write_log>>

\* tools.py:486-502: the except clauses; the sleep before a retry is taken
\* inside the clause, before the finally block runs
Excepted(x, o) ==
    CASE o.kind \in TransportRetried /\ x.attempt < EXECUTOR_MAX_RETRIES - 1 ->
            [x EXCEPT !.last_error = o.msg,
                      !.waits = Append(@, RETRY_DELAY * (x.attempt + 1)),
                      !.next = "continue", !.at = "finally"]
      [] o.kind = "syntax" ->
            [x EXCEPT !.result = ExecError("SQL syntax error: " \o o.msg),
                      !.next = "return", !.at = "finally"]
      [] OTHER ->
            [x EXCEPT !.last_error = o.msg, !.next = "break", !.at = "finally"]

ExecutorExcept ==
    /\ tool.fn = "execute_sql_query"
    /\ tool.at = "except"
    /\ tool' = Excepted(tool, OutcomeNow(tool))
    /\ UNCHANGED <<turn_vars, turns, loop, write_log>>

\* Variant of FinallyClose that leaves the connection open when the attempt
\* is retried; C30 must tell it from the code.
FinallyClose_NotOnRetry(x) ==
    IF x.conn /\ x.next # "continue" THEN [x EXCEPT !.open = @ - 1, !.conn = FALSE] ELSE x

\* tools.py:503-505: if conn: await conn.close()
FinallyClose(x) ==
    IF x.conn THEN [x EXCEPT !.open = @ - 1, !.conn = FALSE] ELSE x

\* tools.py:444 and 507-512: behind the finally block the loop goes on, or
\* the call returns the dict at hand or the one built behind the loop
AfterFinally(x) ==
    CASE x.next = "continue" -> [x EXCEPT !.attempt = @ + 1, !.at = "connect"]
      [] x.next = "return"   -> [x EXCEPT !.at = "returned", !.returned = x.result]
      [] OTHER ->
            [x EXCEPT !.at = "returned",
                      !.returned = ExecError("Query failed after "
                                             \o ToString(EXECUTOR_MAX_RETRIES)
                                             \o " attempts: " \o x.last_error)]

ExecutorFinally ==
    /\ tool.fn = "execute_sql_query"
    /\ tool.at = "finally"
    /\ tool' = AfterFinally(FinallyClose(tool))
    /\ UNCHANGED <<turn_vars, turns, loop, write_log>>

\* The state Enrich hands to search_values_node
ResolveValuesState(terms, tables) ==
    [AgentState("Show orders from NYC", 1, FALSE) EXCEPT
        !.intent = Str("Find orders filtered by city"),
        !.searchable_terms = List(terms),
        !.relevant_tables = List(<<TableDoc("orders"), TableDoc("customers")>>),
        !.table_insights = List(tables)]

SearchValuesNodeCalls ==
    {[fn |-> "search_values_node", state |-> ResolveValuesState(terms, tables),
      store_ok |-> TRUE, probed |-> <<>>, returned |-> None] :
        terms \in ToolTermLists, tables \in InsightLists}

\* Texts of the SQL completion
CompletionTexts ==
    {"~~~sql\nSELECT id FROM orders;\n~~~",
     "<think>plan</think>~~~sql\nWITH t AS (SELECT 1) SELECT * FROM t;\n~~~",
     "~~~sql\nDELETE FROM orders WHERE id = 1;\n~~~",
     "~~~\nINSERT INTO orders VALUES (1)\n~~~",
     "~~~sql\n;\n~~~",
     "UPDATE orders SET id = 2",
     "DELETE FROM orders WHERE id IN (SELECT id FROM old);",
     "Here you go: select id from orders"}

ExtractSqlCalls ==
    {[fn |-> "extract_sql", content |-> content, called |-> FALSE, returned |-> None] :
        content \in CompletionTexts}

\* search_values_node on a state of its own; probed is the search_by_index
\* calls it made, in order
CallSearchValuesNode ==
    /\ tool.fn = "search_values_node"
    /\ tool.returned = None
    /\ tool' = [tool EXCEPT
                   !.returned = [t |-> "state", v |-> search_values_node(tool.state, tool.store_ok)],
                   !.probed = SearchValuesScan(tool.state, tool.store_ok).log]
    /\ UNCHANGED <<turn_vars, turns, loop, write_log>>

\* graph.py:405-421: the statement generate_node extracts from the
\* completion's text; it goes to execute_sql_query unless it is None or empty
CallExtractSql ==
    /\ tool.fn = "extract_sql"
    /\ ~tool.called
    /\ tool' = [tool EXCEPT !.called = TRUE,
                            !.returned = extract_sql(Strip(StripThink(tool.content)))]
    /\ UNCHANGED <<turn_vars, turns, loop, write_log>>

ToolsInit ==
    /\ TurnIdle
    /\ turns = <<>>
    /\ loop = "free"
    /\ write_log = <<>>
    /\ tool \in RowsToCsvCalls \cup SearchByIndexCalls \cup ExecuteSqlQueryCalls
                \cup SearchValuesNodeCalls \cup ExtractSqlCalls

CallRowsToCsv ==
    /\ tool.fn = "rows_to_csv"
    /\ tool.returned = None
    /\ tool' = [tool EXCEPT !.returned = Str(rows_to_csv(tool.columns, tool.rows))]
    /\ UNCHANGED <<turn_vars, turns, loop, write_log>>

\* search_by_index on a table the metadata store holds (tools.py:266-356)
CallSearchByIndex ==
    /\ tool.fn = "search_by_index"
    /\ tool.returned = None
    /\ tool' = [tool EXCEPT !.returned =
                    [t |-> "dict", v |-> SearchTable(tool.table, tool.column_name, tool.search_term)]]
    /\ UNCHANGED <<turn_vars, turns, loop, write_log>>

ToolsNext ==
    \/ CallRowsToCsv
    \/ CallSearchByIndex
    \/ ExecutorStart
    \/ ExecutorConnect
    \/ ExecutorFetch
    \/ ExecutorExcept
    \/ ExecutorFinally
    \/ CallSearchValuesNode
    \/ CallExtractSql

ToolsSpec == ToolsInit /\ [][ToolsNext]_vars

RECURSIVE CsvScan(_, _, _, _, _, _)
\* A CSV reader on text from index i: quoted is whether i is inside a quoted
\* field, fresh whether a field starts at i, fields the fields of the record
\* so far, counts the field counts of the records before it.
CsvScan(text, i, quoted, fresh, fields, counts) ==
    IF i > Len(text) THEN Append(counts, fields)
    ELSE IF quoted
    THEN IF SubSeq(text, i, i) # "\""
         THEN CsvScan(text, i + 1, TRUE, FALSE, fields, counts)
         ELSE IF At(text, i + 1, "\"")
              THEN CsvScan(text, i + 2, TRUE, FALSE, fields, counts)
              ELSE CsvScan(text, i + 1, FALSE, FALSE, fields, counts)
    ELSE IF SubSeq(text, i, i) = ","
    THEN CsvScan(text, i + 1, FALSE, TRUE, fields + 1, counts)
    ELSE IF SubSeq(text, i, i) = "\n"
    THEN CsvScan(text, i + 1, FALSE, TRUE, 1, Append(counts, fields))
    ELSE CsvScan(text, i + 1, fresh /\ SubSeq(text, i, i) = "\"", FALSE, fields, counts)

\* The number of fields of each record a CSV reader finds in text
CsvFieldCounts(text) == CsvScan(text, 1, FALSE, TRUE, 1, <<>>)

\* The text of a cell as rows_to_csv writes it when nothing needs quoting
CellText(val) ==
    CASE val.t = "None" -> ""
      [] val.t = "str" -> val.v
      [] OTHER -> PyStr(val)

NeedsQuoting(text) == Contains(text, ",") \/ Contains(text, "\"") \/ Contains(text, "\n")

\* C18: the text rows_to_csv returns parses as CSV into the header and the
\* rows, each with exactly len(columns) fields, and every cell whose text
\* holds a comma, a double quote or a newline is written inside double
\* quotes with its quotes doubled.
C18_CsvRoundTrip ==
    (tool.fn = "rows_to_csv" /\ tool.returned # None) =>
        /\ CsvFieldCounts(tool.returned.v) =
              [i \in 1..(Len(tool.rows) + 1) |-> Len(tool.columns)]
        /\ \A i \in 1..Len(tool.rows) : \A j \in 1..Len(tool.rows[i]) :
              NeedsQuoting(CellText(tool.rows[i][j])) =>
                 CsvCell(tool.rows[i][j]) =
                    "\"" \o DoubleQuotes(CellText(tool.rows[i][j])) \o "\""

\* value is matched to term by containment (tools.py:296-301)
ContainmentHit(term, value) == Contains(value, term) \/ Contains(term, value)

\* value is matched to term through the abbreviation table (tools.py:370-386)
AbbreviationHit(term, value) == AbbreviationOf(term, value) \/ AbbreviationOf(value, term)

\* value is matched to term by a shared 3-character substring alone
HeuristicOnlyHit(term, value) ==
    /\ ~ContainmentHit(term, value)
    /\ ~AbbreviationHit(term, value)
    /\ _fuzzy_match(term, value)

\* The values of the column searched by the tool call
SearchedValues == tool.table.columns[1].categorical_values

\* C19: in a categorical search where no value matches by containment, every
\* value matched through the abbreviation table stands before every value
\* matched only by the shared-substring heuristic, so the best match is an
\* abbreviation hit when there is one.
C19_AbbreviationOutranksHeuristic ==
    (/\ tool.fn = "search_by_index"
     /\ tool.returned # None
     /\ \A k \in 1..Len(SearchedValues) :
           ~ContainmentHit(Lower(tool.search_term.v), Lower(SearchedValues[k]))
     /\ \E k \in 1..Len(SearchedValues) :
           AbbreviationHit(Lower(tool.search_term.v), Lower(SearchedValues[k]))) =>
        /\ tool.returned.v.status = "success"
        /\ AbbreviationHit(Lower(tool.search_term.v), Lower(tool.returned.v.matches[1].value))
        /\ \A i, j \in 1..Len(tool.returned.v.matches) :
              (/\ AbbreviationHit(Lower(tool.search_term.v),
                                  Lower(tool.returned.v.matches[i].value))
               /\ HeuristicOnlyHit(Lower(tool.search_term.v),
                                   Lower(tool.returned.v.matches[j].value))) => i < j

\* The call of execute_sql_query made on its own has returned
ExecutorReturned == tool.fn = "execute_sql_query" /\ tool.at = "returned"

\* The rows the query produced in the attempt that returned
Produced == OutcomeNow(tool).set.rows

\* C21: a successful result of execute_sql_query holds at most max_rows rows,
\* the first rows the query produced, and has truncated = true exactly when
\* the query produced more than max_rows rows; the call returns the dict
\* execute_sql_query computes for what the database did.
C21_RowsBoundedAndTruncationReported ==
    ExecutorReturned =>
        /\ tool.returned = execute_sql_query(tool.details, tool.max_rows, tool.db)
        /\ tool.returned.status = "success" =>
              /\ Len(tool.returned.rows) <= tool.max_rows
              /\ Len(tool.returned.rows) = Min(Len(Produced), tool.max_rows)
              /\ \A i \in 1..Len(tool.returned.rows) : tool.returned.rows[i] = Produced[i]
              /\ ("truncated" \in DOMAIN tool.returned /\ tool.returned.truncated)
                    <=> Len(Produced) > tool.max_rows

\* A result cut to max_rows rows, returned on the third attempt
C21_Witness ==
    /\ ExecutorReturned
    /\ tool.returned.status = "success"
    /\ tool.max_rows > 0
    /\ Len(tool.returned.rows) = tool.max_rows
    /\ Len(Produced) > tool.max_rows
    /\ tool.returned.truncated
    /\ tool.attempt = 2

\* C30: a call of execute_sql_query has at most one connection open, none
\* when an attempt starts and none when it has returned, however the attempts
\* end.
C30_ConnectionsClosed ==
    tool.fn = "execute_sql_query" =>
        /\ tool.open <= 1
        /\ tool.at = "connect" => tool.open = 0
        /\ tool.at = "returned" => tool.open = 0

\* The call has returned after three attempts that each opened a connection
C30_Witness ==
    /\ ExecutorReturned
    /\ tool.opened = 3
    /\ tool.open = 0
    /\ tool.waits = <<1, 2>>

\* C25: the statement generate_node hands to the executor begins with SELECT
\* or WITH, whatever text the completion service returned.
C25_OnlySelectOrWithExecuted ==
    (tool.fn = "extract_sql" /\ tool.called /\ Truthy(tool.returned)) =>
        \/ StartsWith(Lower(tool.returned.v), "select")
        \/ StartsWith(Lower(tool.returned.v), "with")

\* search_values_node called on its own has returned
ResolveValuesReturned == tool.fn = "search_values_node" /\ tool.returned # None

GivenTerms == tool.state.searchable_terms.v

GivenTables == tool.state.table_insights.v

\* resolved_values after the call
Resolved == tool.returned.v.resolved_values.v

TermOf(term_info) == DictGet(term_info.v, "term", Str(""))

LikelyTypeOf(term_info) == Lower(DictGet(term_info.v, "likely_column_type", Str("")).v)

RECURSIVE QualifyingFrom(_, _, _, _)
\* The qualifying columns of tables from column j of table i on, in
\* table-list order and column-list order within a table
QualifyingFrom(tables, i, j, likely_type) ==
    IF i > Len(tables) THEN <<>>
    ELSE IF j > Len(tables[i].columns) THEN QualifyingFrom(tables, i + 1, 1, likely_type)
    ELSE (IF ColumnQualifies(tables[i].columns[j], likely_type)
          THEN <<[table_name |-> tables[i].table_name,
                  column_name |-> tables[i].columns[j].column_name]>>
          ELSE <<>>)
         \o QualifyingFrom(tables, i, j + 1, likely_type)

RECURSIVE ProbesOf(_, _)
\* The columns probed for term, in the order probed
ProbesOf(log, term) ==
    IF Len(log) = 0 THEN <<>>
    ELSE (IF Head(log).term = term
          THEN <<[table_name |-> Head(log).table_name, column_name |-> Head(log).column_name]>>
          ELSE <<>>)
         \o ProbesOf(Tail(log), term)

\* search_by_index finds a match for term in the column
ProbeMatches(term, column) ==
    search_by_index(column.table_name, column.column_name, term, TRUE).status = "success"

\* The columns probed are the first qualifying columns, in order
OrderKept(given, due) ==
    /\ Len(given) <= Len(due)
    /\ \A i \in 1..Len(given) : given[i] = due[i]

\* No column is probed behind one that matched
StopsAtMatch(term, given) ==
    \A i \in 1..Len(given) : ProbeMatches(term, given[i]) => i = Len(given)

\* An entry recorded for term is keyed by the first probed column that matched
RecordedFromFirst(term, given, resolved) ==
    \A n \in 1..Len(resolved) :
        resolved[n].info.original_term = term.v =>
            \E i \in 1..Len(given) :
                /\ ProbeMatches(term, given[i])
                /\ \A h \in 1..(i - 1) : ~ProbeMatches(term, given[h])
                /\ resolved[n].key = given[i].table_name \o "." \o given[i].column_name

\* C22: for each extracted term the columns probed are qualifying columns,
\* taken in table-list order then column-list order; no column is probed
\* behind the first one that yields a match, in the same table or a later
\* one; and the resolution recorded for the term comes from that column.
C22_FirstMatchingColumnWins ==
    (/\ ResolveValuesReturned
     /\ \A k, h \in 1..Len(GivenTerms) : GivenTerms[k] = GivenTerms[h] => k = h) =>
        \A k \in 1..Len(GivenTerms) :
            Truthy(TermOf(GivenTerms[k])) =>
                /\ OrderKept(ProbesOf(tool.probed, TermOf(GivenTerms[k])),
                             QualifyingFrom(GivenTables, 1, 1, LikelyTypeOf(GivenTerms[k])))
                /\ StopsAtMatch(TermOf(GivenTerms[k]),
                                ProbesOf(tool.probed, TermOf(GivenTerms[k])))
                /\ RecordedFromFirst(TermOf(GivenTerms[k]),
                                     ProbesOf(tool.probed, TermOf(GivenTerms[k])), Resolved)

\* Some qualifying column of the tables yields a match for the term
Resolvable(term, due) == \E i \in 1..Len(due) : ProbeMatches(term, due[i])

\* C26: after Resolve Values every non-empty extracted term for which some
\* qualifying column of some table yields a match is the original_term of an
\* entry of resolved_values.
C26_EveryResolvableTermResolved ==
    ResolveValuesReturned =>
        \A k \in 1..Len(GivenTerms) :
            (/\ Truthy(TermOf(GivenTerms[k]))
             /\ Resolvable(TermOf(GivenTerms[k]),
                           QualifyingFrom(GivenTables, 1, 1, LikelyTypeOf(GivenTerms[k])))) =>
                \E n \in 1..Len(Resolved) :
                    Resolved[n].info.original_term = TermOf(GivenTerms[k]).v

\* The columns of the metadata store named by a key of resolved_values
ColumnsKeyed(key) ==
    UNION {{MetadataStore[i].columns[j] :
               j \in {x \in 1..Len(MetadataStore[i].columns) :
                         MetadataStore[i].table_name \o "." \o
                         MetadataStore[i].columns[x].column_name = key}} :
           i \in 1..Len(MetadataStore)}

\* The match is one of the candidates, none of them scores higher, and it
\* is a containment match when one of them is
BestOf(value, match_type, score, candidates) ==
    /\ \E i \in 1..Len(candidates) :
          candidates[i] = [value |-> value, match_type |-> match_type, score |-> score]
    /\ \A i \in 1..Len(candidates) : candidates[i].score <= score
    /\ (\E i \in 1..Len(candidates) : candidates[i].match_type = "contains") =>
          (match_type = "contains" /\ score = 1000)

\* C23: the match search_by_index returns first, which search_values_node
\* records as the resolution, is a highest-scoring match among the values of
\* the probed column: a value matching by containment (score 1.0) is chosen
\* over every value matching by the fuzzy rules only (score 0.8), whatever
\* the order of the stored values.
C23_BestMatchRecorded ==
    /\ (tool.fn = "search_by_index" /\ tool.returned # None
         /\ tool.returned.v.status = "success") =>
           BestOf(tool.returned.v.matches[1].value, tool.returned.v.matches[1].match_type,
                  tool.returned.v.matches[1].score,
                  ColumnMatches(tool.table.columns[1], tool.search_term.v))
    /\ ResolveValuesReturned =>
           \A n \in 1..Len(Resolved) : \A column \in ColumnsKeyed(Resolved[n].key) :
               BestOf(Resolved[n].info.actual_value, Resolved[n].info.match_type,
                      Resolved[n].info.score,
                      ColumnMatches(column, Resolved[n].info.original_term))

\* A resolution by containment recorded from a column whose first stored
\* value matches the term by the fuzzy rules only
C23_Witness ==
    /\ ResolveValuesReturned
    /\ \E n \in 1..Len(Resolved) : \E column \in ColumnsKeyed(Resolved[n].key) :
          /\ Resolved[n].info.match_type = "contains"
          /\ Len(ColumnMatches(column, Resolved[n].info.original_term)) > 1
          /\ ColumnMatches(column, Resolved[n].info.original_term)[1].match_type = "fuzzy"

(* ---------------------------------------------------------------------- *)
(* Concurrent turns in one host process                                    *)
(* ---------------------------------------------------------------------- *)

\* The requests chat_with_database serves at once. Every coroutine of the
\* process runs on one event loop: a turn runs from one await to the next,
\* and a synchronous call keeps the loop until it returns.
TurnIds == {"t1", "t2"}

HostQuestions == {"Show orders from NYC", "Hello"}

HostConnectionIds == {1, 2}

\* The connection row read at router.py:86; the row of a connection may have
\* been edited between two requests, so each request reads its own
DetailsOf(t) == [host |-> "db", port |-> 5432, password |-> "secret read by " \o t]

\* The answers of the services during concurrent turns
HostIntentReplies ==
    {[kind |-> "text"],
     [kind |-> "json", parsed |-> Dict([intent |-> Str("Find orders filtered by city"),
                                        searchable_terms |-> List(<<WellFormedTerm>>)])]}

HostSimilarityOutcomes ==
    {[kind |-> "ok", results |-> <<TableDoc("orders"), TableDoc("customers")>>]}

HostStoreAnswers == {[kind |-> "store", ok |-> TRUE]}

HostSqlReplies == {[kind |-> "text", content |-> "~~~sql\nSELECT id FROM orders;\n~~~"]}

HostDbBehaviours ==
    {<<o>> : o \in {x \in AttemptOutcomes :
                       \/ x.kind = "syntax"
                       \/ (x.kind = "rows" /\ x.set \in ResultSets
                                             /\ Len(x.set.rows) > 0)}}

HostExplainReplies == {[kind |-> "text", content |-> "One order from New York. "]}

\* The calls that are made synchronously inside a coroutine: the completion
\* client's invoke (graph.py:124, 405, 521) and search_similar, whose
\* embedding and vector-store client are synchronous (vectorizer.py:92-96,
\* 185-191). The metadata store and the executor are awaited (tools.py:147,
\* 448-460).
BlockingCalls == {"llm_intent", "search", "llm_sql", "llm_explain"}

AwaitedCalls == {"insights", "value_search", "executor"}

NoReplies ==
    [llm_intent |-> NotCalled, search |-> NotCalled, insights |-> NotCalled,
     value_search |-> NotCalled, llm_sql |-> NotCalled, executor |-> NotCalled,
     llm_explain |-> NotCalled]

\* A request chat_with_database has accepted (router.py:64-91)
Request(question, connection_id, explain_mode) ==
    [at            |-> "request",
     question      |-> question,
     connection_id |-> connection_id,
     explain_mode  |-> explain_mode,
     details       |-> None,
     state         |-> None,
     pending       |-> "none",
     got           |-> NoReplies,
     heard         |-> <<>>,
     used_details  |-> NotCalled,
     payload       |-> None]

HostInit ==
    /\ TurnIdle
    /\ tool = NoTool
    /\ loop = "free"
    /\ write_log = <<>>
    /\ turns \in [TurnIds -> {Request(q, c, e) :
                                q \in HostQuestions, c \in HostConnectionIds, e \in BOOLEAN}]

\* Variant of set_connection_details that keeps the latest entry alone; C16
\* must tell it from the code.
set_connection_details_KeepsOne(cache, connection_id, details) ==
    [c \in {connection_id} |-> details]

\* tools.py:62-64
set_connection_details(cache, connection_id, details) ==
    [c \in DOMAIN cache \cup {connection_id} |->
        IF c = connection_id THEN details ELSE cache[c]]

\* Whether the event loop can run turn t on
Runnable(t) == loop \in {"free", t}

\* router.py:93-102: the details of the connection go into the cache
CacheDetails(t) ==
    /\ Runnable(t)
    /\ turns[t].at = "request"
    /\ connection_cache' = set_connection_details(connection_cache, turns[t].connection_id,
                                                  DetailsOf(t))
    /\ write_log' = Append(write_log, [connection_id |-> turns[t].connection_id,
                                       details |-> DetailsOf(t)])
    /\ turns' = [turns EXCEPT ![t].at = "cached", ![t].details = DetailsOf(t)]
    /\ UNCHANGED <<pc, state, calls, intent_reply, last_result, syntax_only, payload,
                   sql_prompt, tool, loop>>

\* Variant of RunAgentState in which a turn goes on from the state of a turn
\* already running, as it would with one state object for the process; C14
\* must tell it from the code.
RunAgentState_Shared(ts, t) ==
    IF \E u \in TurnIds \ {t} : ts[u].state # None
    THEN ts[CHOOSE u \in TurnIds \ {t} : ts[u].state # None].state
    ELSE AgentState(ts[t].question, ts[t].connection_id, ts[t].explain_mode)

\* graph.py:605-623: run_agent builds the initial_state of its own turn
RunAgentState(ts, t) == AgentState(ts[t].question, ts[t].connection_id, ts[t].explain_mode)

\* router.py:104-145 and graph.py:605-626: the messages are saved and
\* run_agent starts the graph
RunAgent(t) ==
    /\ Runnable(t)
    /\ turns[t].at = "cached"
    /\ turns' = [turns EXCEPT ![t].at = "understand", ![t].state = RunAgentState(turns, t)]
    /\ UNCHANGED <<turn_vars, tool, loop, write_log>>

\* The executor's dict in the replies of a turn, NotCalled before the call
ExecutorResultGot(turn) ==
    IF turn.got.executor = NotCalled THEN NotCalled ELSE turn.got.executor.v

\* The external call the node of the turn makes next, "none" when the node
\* has all its answers
NextCall(turn) ==
    CASE turn.at = "understand" ->
            IF turn.got.llm_intent = NotCalled THEN "llm_intent" ELSE "none"
      [] turn.at = "retrieve" ->
            IF turn.state.intent # Str("GREETING") /\ turn.got.search = NotCalled
            THEN "search" ELSE "none"
      [] turn.at = "enrich" ->
            IF ~EnrichSkips(turn.state) /\ turn.got.insights = NotCalled
            THEN "insights" ELSE "none"
      [] turn.at = "search_values" ->
            IF /\ turn.state.intent # Str("GREETING")
               /\ Truthy(turn.state.searchable_terms)
               /\ Truthy(turn.state.table_insights)
               /\ turn.got.value_search = NotCalled
            THEN "value_search" ELSE "none"
      [] turn.at = "generate" ->
            IF GenerateReturnsEarly(turn.state) THEN "none"
            ELSE IF turn.got.llm_sql = NotCalled THEN "llm_sql"
            ELSE IF ~ReachesExecutor(turn.state, turn.got.llm_sql) THEN "none"
            ELSE IF turn.got.executor = NotCalled THEN "executor"
            ELSE IF /\ turn.got.executor.v.status = "success"
                    /\ turn.state.explain_mode
                    /\ turn.got.llm_explain = NotCalled
                 THEN "llm_explain" ELSE "none"
      [] OTHER -> "none"

\* The node of the turn makes its next call. The executor reads the cache as
\* it starts (tools.py:424).
Issued(turn, call, cache) ==
    [turn EXCEPT !.pending = call,
                 !.used_details = IF call = "executor"
                                  THEN get_connection_details(cache, turn.connection_id)
                                  ELSE @]

IssueCall(t) ==
    /\ Runnable(t)
    /\ turns[t].pending = "none"
    /\ NextCall(turns[t]) # "none"
    /\ turns' = [turns EXCEPT ![t] = Issued(@, NextCall(turns[t]), connection_cache)]
    /\ loop' = IF NextCall(turns[t]) \in BlockingCalls THEN t ELSE "free"
    /\ UNCHANGED <<turn_vars, tool, write_log>>

\* What the service called can answer
RepliesTo(turn) ==
    CASE turn.pending = "llm_intent"   -> HostIntentReplies
      [] turn.pending = "search"       -> HostSimilarityOutcomes
      [] turn.pending = "insights"     -> HostStoreAnswers
      [] turn.pending = "value_search" -> HostStoreAnswers
      [] turn.pending = "llm_sql"      -> HostSqlReplies
      [] turn.pending = "executor"     ->
            IF turn.used_details = None
            THEN {[kind |-> "result", v |-> execute_sql_query(None, DEFAULT_MAX_ROWS, <<>>)]}
            ELSE {[kind |-> "result", v |-> ExecutorResultOf[db]] : db \in HostDbBehaviours}
      [] turn.pending = "llm_explain"  -> HostExplainReplies
      [] OTHER -> {}

\* The answer of the pending call has come in
Received(turn, reply) ==
    [turn EXCEPT !.got = [@ EXCEPT ![turn.pending] = reply],
                 !.heard = Append(@, reply),
                 !.pending = "none"]

ReceiveReply(t) ==
    /\ Runnable(t)
    /\ turns[t].pending # "none"
    /\ \E reply \in RepliesTo(turns[t]) :
         turns' = [turns EXCEPT ![t] = Received(@, reply)]
    /\ loop' = "free"
    /\ UNCHANGED <<turn_vars, tool, write_log>>

\* The node after generate_node (graph.py:572-579)
AfterGenerate(after) ==
    [state |-> after, at |-> IF should_retry_generate(after) = "generate" THEN "generate" ELSE "END"]

\* The node of the turn returns with the answers it got, and the graph moves
\* to the next node (graph.py:565-579)
NodeReturn(turn) ==
    CASE turn.at = "understand" ->
            [state |-> understand_node(turn.state, turn.got.llm_intent), at |-> "retrieve"]
      [] turn.at = "retrieve" ->
            [state |-> retrieve_node(turn.state, turn.got.search), at |-> "enrich"]
      [] turn.at = "enrich" ->
            [state |-> enrich_node(turn.state, TRUE), at |-> "search_values"]
      [] turn.at = "search_values" ->
            IF SearchValuesScan(turn.state, TRUE).raised
            THEN [state |-> turn.state, at |-> "raised"]
            ELSE [state |-> search_values_node(turn.state, TRUE), at |-> "generate"]
      [] OTHER ->
            AfterGenerate(generate_node(turn.state, turn.got.llm_sql, ExecutorResultGot(turn),
                                        turn.got.llm_explain))

Finished(turn) ==
    [turn EXCEPT !.state = NodeReturn(turn).state,
                 !.at = NodeReturn(turn).at,
                 !.got = NoReplies]

FinishNode(t) ==
    /\ Runnable(t)
    /\ turns[t].at \in {"understand", "retrieve", "enrich", "search_values", "generate"}
    /\ turns[t].pending = "none"
    /\ NextCall(turns[t]) = "none"
    /\ turns' = [turns EXCEPT ![t] = Finished(@)]
    /\ UNCHANGED <<turn_vars, tool, loop, write_log>>

\* graph.py:628-635
RunAgentResult(s) ==
    [t |-> "payload",
     v |-> [response    |-> s.response,
            sql         |-> s.sql_query,
            explanation |-> s.explanation,
            data        |-> s.data,
            columns     |-> s.columns,
            error       |-> s.error]]

ReturnPayload(t) ==
    /\ Runnable(t)
    /\ turns[t].at = "END"
    /\ turns' = [turns EXCEPT ![t].at = "returned", ![t].payload = RunAgentResult(turns[t].state)]
    /\ UNCHANGED <<turn_vars, tool, loop, write_log>>

HostNext ==
    \E t \in TurnIds :
        \/ CacheDetails(t)
        \/ RunAgent(t)
        \/ IssueCall(t)
        \/ ReceiveReply(t)
        \/ FinishNode(t)
        \/ ReturnPayload(t)

HostSpec == HostInit /\ [][HostNext]_vars

Nodes == {"understand", "retrieve", "enrich", "search_values", "generate"}

RECURSIVE Replay(_)
\* The turn run on with no other turn beside it: each call of its nodes is
\* answered by the next of the answers in heard
Replay(turn) ==
    IF turn.at \notin Nodes THEN turn
    ELSE IF NextCall(turn) = "none" THEN Replay(Finished(turn))
    ELSE IF Len(turn.heard) = 0 THEN turn
    ELSE Replay([turn EXCEPT !.got = [@ EXCEPT ![NextCall(turn)] = Head(turn.heard)],
                             !.heard = Tail(@)])

\* Turn t run alone from its own inputs on the answers it has received
Alone(t) ==
    Replay([turns[t] EXCEPT !.at = "understand",
                            !.state = AgentState(turns[t].question, turns[t].connection_id,
                                                 turns[t].explain_mode),
                            !.got = NoReplies,
                            !.pending = "none"])

\* C14: concurrent turns do not share WorkflowState: a step of one turn
\* leaves the state of every other turn as it was, the state of a turn is
\* built from its own request, and under every interleaving the payload a
\* turn returns is the one its own inputs and the answers it received
\* produce when the turn runs alone.
C14_TurnsDoNotShareState ==
    /\ [][\A t, u \in TurnIds :
            (t # u /\ turns'[t] # turns[t]) => turns'[u] = turns[u]]_vars
    /\ [](\A t \in TurnIds : turns[t].state # None =>
            /\ turns[t].state.question = turns[t].question
            /\ turns[t].state.connection_id = turns[t].connection_id
            /\ turns[t].state.explain_mode = turns[t].explain_mode)
    /\ [](\A t \in TurnIds : turns[t].at = "returned" =>
            /\ Alone(t).at = "END"
            /\ turns[t].payload = RunAgentResult(Alone(t).state))

C14_Witness ==
    /\ turns["t1"].question # turns["t2"].question
    /\ turns["t1"].at = "returned"
    /\ turns["t1"].payload.v.sql # None
    /\ turns["t2"].at = "generate"
    /\ turns["t2"].pending = "executor"

\* C15: no external call keeps the host process from its other turns: while
\* a turn waits for the answer of a call, every other unfinished turn can be
\* run on by the event loop.
C15_CallsDoNotBlock ==
    \A t \in TurnIds :
        turns[t].pending # "none" =>
            \A u \in TurnIds \ {t} :
                turns[u].at \notin {"returned", "raised"} => Runnable(u)

RECURSIVE LastWritten(_, _)
\* The details of the latest set_connection_details call for connection_id
LastWritten(log, connection_id) ==
    IF Len(log) = 0 THEN None
    ELSE IF log[Len(log)].connection_id = connection_id
         THEN [t |-> "details", v |-> log[Len(log)].details]
         ELSE LastWritten(SubSeq(log, 1, Len(log) - 1), connection_id)

\* C16: no step removes an entry of the connection cache; a turn's request
\* has written the entry of its connection id before its workflow starts;
\* and under every interleaving the executor finds the entry of its turn's
\* connection id, equal to the value written last for that id.
C16_CacheAppendOnly ==
    /\ [][\A c \in DOMAIN connection_cache : c \in DOMAIN connection_cache']_vars
    /\ [](\A t \in TurnIds : turns[t].at # "request" =>
            /\ turns[t].connection_id \in DOMAIN connection_cache
            /\ \E k \in 1..Len(write_log) :
                  write_log[k] = [connection_id |-> turns[t].connection_id,
                                  details |-> turns[t].details])
    /\ [][\A t \in TurnIds :
            (turns[t].pending # "executor" /\ turns'[t].pending = "executor") =>
               /\ turns'[t].used_details # None
               /\ turns'[t].used_details = LastWritten(write_log, turns[t].connection_id)]_vars

C16_Witness ==
    /\ turns["t1"].connection_id = turns["t2"].connection_id
    /\ turns["t1"].pending = "executor"
    /\ turns["t1"].used_details = [t |-> "details", v |-> DetailsOf("t2")]
====
